---- MODULE Spec2Model ----
(***************************************************************************)
(* A model of the planebrane client: the point extraction hook             *)
(* (useAdjustPoints) with its local detector (geometryDetection.ts) and    *)
(* its mock generator, the mock mesh generators (useGenerateModel,         *)
(* View3DSection) and the edge extraction of CymaticGeometry.              *)
(*                                                                         *)
(* Numbers.  The code computes in IEEE doubles; the model computes in      *)
(* integers on fixed scales:                                               *)
(*   - pixel coordinates and pixel values are integers as in the code;     *)
(*   - a normalized coordinate (0..1) is held in units of 1/CoordScale;    *)
(*   - a confidence or weight is held in units of 1/ConfDen, the scale on  *)
(*     which the Harris response / 1000000 is an integer;                  *)
(*   - a radius of a mesh is held in units of 1/RadiusScale;               *)
(*   - an angle is held in units of 2*pi/TwoPi.                            *)
(***************************************************************************)
EXTENDS Integers, Sequences, FiniteSets, TLC

VARIABLES
    \* ---- useAdjustPoints (hook arguments and query state) ----
    imageId,               \* string | null
    imageUrl,              \* string | null
    image,                 \* the raster behind imageUrl (an index into Images)
    useGeometricDetection, \* hook argument
    debouncedParams,       \* [density, threshold, minSpacing, weighting, maxPoints]
    data,                  \* the query's data: NoData or [id, points]
    error,                 \* the query's error: NoError or a message
    detected,              \* what detectFeaturesFromImageData returned in the last run
    source,                \* how the last run of queryFn went (backend outcome)
    prev,                  \* the run before, for comparing repeated runs
    runs,                  \* number of runs of queryFn so far
    \* ---- useGenerateModel / View3DSection ----
    pointsExtractionId,    \* string | null
    targetShape,           \* the shape tag handed to useGenerateModel
    mutation,              \* the mutation's state: [status] with data or error
    modelSource,           \* how the last run of mutationFn went (backend outcome)
    modelCache,            \* queryClient's entry ['3dModel', pointsExtractionId]
    adjustedPoints,        \* store.adjustedPoints as View3DSection sees it
    view3dShown,           \* View3DSection is mounted
    modelData,             \* View3DSection's modelData state: NoData or a mesh
    \* ---- useAdjustPoints (the debounce effect) ----
    hookArgs,              \* the hook's arguments density .. maxPoints of the last render
    timers,                \* pending setTimeout callbacks: [values, due]
    now,                   \* the clock, in ms
    changes,               \* the changes of hookArgs so far: [at, values]
    requested,             \* the query keys useQuery has fetched: [key, at]
    \* ---- useAppStore and the sections that call it ----
    store,                 \* the zustand state
    objects,               \* the heap of point objects; a point list holds indices into it
    analyzing,             \* AnalysisSection's analyzing state
    analysisError,         \* AnalysisSection's error state
    analysisRuns,          \* the calls of runAnalysis in flight: [pc, currentImageId, ..]
    hook,                  \* what useAdjustPoints gives AdjustSection: [points, fetching]
    synced,                \* the dependencies the store sync effect last ran with
    draggedPointIndex,     \* AdjustSection's draggedPointIndex state (1-based)
    lastLoad,              \* the reader.onload that ran last, if nothing followed: [file, outcome]
    cleared                \* the points the last Clear All removed

extractVars == <<imageId, imageUrl, image, useGeometricDetection, debouncedParams,
                 data, error, detected, source, prev, runs>>
meshVars == <<pointsExtractionId, targetShape, mutation, modelSource, modelCache, adjustedPoints,
              view3dShown, modelData>>
debounceVars == <<hookArgs, timers, now, changes, requested>>
storeVars == <<store, objects, analyzing, analysisError, analysisRuns, hook, synced,
               draggedPointIndex, lastLoad, cleared>>
otherVars == <<extractVars, meshVars, debounceVars>>
vars == <<extractVars, meshVars, debounceVars, storeVars>>

\* undefined / null where the value is otherwise a record
NoData == [id |-> "null"]
NoError == "null"
Null == "null"

(***************************************************************************)
(* Scales and bounds of the model.                                         *)
(***************************************************************************)
CoordScale == 100 * 100
ConfDen == 25 * 1000000
ImgW == 12
ImgH == 12
MaxRuns == 2
MaxSeed == 3
MaxBackendPoints == 12

Min(a, b) == IF a < b THEN a ELSE b
Max(a, b) == IF a > b THEN a ELSE b

\* f itself, as an enumerated function (TLC then evaluates each entry once)
Enumerated(f) == f @@ f

RECURSIVE SumSeq(_)
SumSeq(s) == IF s = <<>> THEN 0 ELSE Head(s) + SumSeq(Tail(s))

(***************************************************************************)
(* useAppStore: the zustand store behind the five workflow sections.       *)
(* Its operations are functions from a store value to a store value; a     *)
(* point list is a sequence of references into the heap `objects`, so that *)
(* two lists holding the same point object are told from two lists holding *)
(* equal copies.                                                           *)
(***************************************************************************)

\* StepIndicator: the steps in their order
steps == <<"upload", "analyze", "adjust", "view3d", "export">>
StepNames == {steps[k] : k \in DOMAIN steps}
\* steps.findIndex((step) => step.id === currentStep)
currentIndex(step) == CHOOSE k \in DOMAIN steps : steps[k] = step
Undefined == "undefined"
NoAnalysis == [pattern_type |-> "null"]

MaxStepHistory == 4
MaxPointsHistory == 3
MaxObjects == 2
MaxAnalysisRuns == 1

\* zustand's set(partial): the fields of partial replace those of the state
set(s, partial) == partial @@ s

initialState ==
    [currentStep |-> "upload",
     uploadedImage |-> Null,
     uploadedImageFile |-> Null,
     imageId |-> Null,
     pointsExtractionId |-> Null,
     modelId |-> Null,
     patternAnalysis |-> NoAnalysis,
     pointDensity |-> 50,
     detectionThreshold |-> 100,
     minimumSpacing |-> 5,
     weightingFactor |-> ConfDen,
     adjustedPoints |-> <<>>,
     editMode |-> "automatic",
     geometricFeatures |-> <<>>,
     selectedTool |-> Null,
     modelGenerated |-> FALSE,
     frameCount |-> 30,
     currentFrame |-> 0,
     lineWidth |-> 2,
     modelColor |-> "#00CCCC",
     modelColor2 |-> "#1560BD",
     useGradient |-> FALSE,
     projectName |-> "Untitled Project",
     stepHistory |-> <<>>,
     currentHistoryIndex |-> -1,
     pointsHistory |-> <<>>,
     pointsHistoryIndex |-> -1,
     isAnimating |-> FALSE]

\* the state create() builds: initialState and the fields written beside it
createStore ==
    [isDarkMode |-> FALSE, canGoBack |-> FALSE, canGoForward |-> FALSE,
     canUndo |-> FALSE, canRedo |-> FALSE] @@ initialState

\* the data setCurrentStep snapshots into a history entry
StepData(s) ==
    [uploadedImage |-> s.uploadedImage,
     uploadedImageFile |-> s.uploadedImageFile,
     imageId |-> s.imageId,
     patternAnalysis |-> s.patternAnalysis,
     pointDensity |-> s.pointDensity,
     detectionThreshold |-> s.detectionThreshold,
     minimumSpacing |-> s.minimumSpacing,
     weightingFactor |-> s.weightingFactor,
     adjustedPoints |-> s.adjustedPoints,
     editMode |-> s.editMode,
     selectedTool |-> s.selectedTool,
     geometricFeatures |-> s.geometricFeatures,
     frameCount |-> s.frameCount,
     currentFrame |-> s.currentFrame,
     lineWidth |-> s.lineWidth]

WithStepHistory(s, newHistory) ==
    set(s, [stepHistory |-> newHistory,
            currentHistoryIndex |-> Len(newHistory) - 1,
            canGoBack |-> Len(newHistory) > 1,
            canGoForward |-> FALSE])

addToHistory(s, state) ==
    WithStepHistory(s, Append(SubSeq(s.stepHistory, 1, s.currentHistoryIndex + 1), state))

\* the snapshot is taken from the state before currentStep is written
setCurrentStep(s, step) ==
    addToHistory(set(s, [currentStep |-> step]), [step |-> step, data |-> StepData(s)])

\* what goBack and goForward write for the entry at the 0-based newIndex
RestoreStep(s, newIndex, back, forward) ==
    set(s, [currentHistoryIndex |-> newIndex,
            currentStep |-> s.stepHistory[newIndex + 1].step,
            canGoBack |-> back,
            canGoForward |-> forward] @@ s.stepHistory[newIndex + 1].data)

goBack_toFirst(s) ==
    IF s.currentHistoryIndex > 0 THEN RestoreStep(s, 0, FALSE, TRUE) ELSE s

goBack(s) ==
    IF s.currentHistoryIndex > 0
    THEN RestoreStep(s, s.currentHistoryIndex - 1, s.currentHistoryIndex - 1 > 0, TRUE)
    ELSE s

goForward(s) ==
    IF s.currentHistoryIndex < Len(s.stepHistory) - 1
    THEN RestoreStep(s, s.currentHistoryIndex + 1, TRUE,
                     s.currentHistoryIndex + 1 < Len(s.stepHistory) - 1)
    ELSE s

setUploadedImage(s, img, file) == set(s, [uploadedImage |-> img, uploadedImageFile |-> file])
setImageId(s, id) == set(s, [imageId |-> id])
setPatternAnalysis(s, analysis) == set(s, [patternAnalysis |-> analysis])
setEditMode(s, mode) == set(s, [editMode |-> mode])
setSelectedTool(s, tool) == set(s, [selectedTool |-> tool])
setFrameCount(s, count) == set(s, [frameCount |-> count, currentFrame |-> 0])
setCurrentFrame(s, frame) == set(s, [currentFrame |-> frame])
setIsAnimating(s, animating) == set(s, [isAnimating |-> animating])
toggleDarkMode(s) == set(s, [isDarkMode |-> ~s.isDarkMode])

WithPointsHistory(s, newHistory) ==
    set(s, [pointsHistory |-> newHistory,
            pointsHistoryIndex |-> Len(newHistory) - 1,
            canUndo |-> Len(newHistory) > 1,
            canRedo |-> FALSE])

\* [...points]: the entry is a new array of the same point objects
addPointsToHistory(s, points) ==
    WithPointsHistory(s, Append(SubSeq(s.pointsHistory, 1, s.pointsHistoryIndex + 1), points))

setAdjustedPoints(s, points) ==
    addPointsToHistory(set(s, [adjustedPoints |-> points]), points)

undo(s) ==
    IF s.pointsHistoryIndex > 0
    THEN set(s, [adjustedPoints |-> s.pointsHistory[s.pointsHistoryIndex],
                 pointsHistoryIndex |-> s.pointsHistoryIndex - 1,
                 canUndo |-> s.pointsHistoryIndex - 1 > 0,
                 canRedo |-> TRUE])
    ELSE s

redo(s) ==
    IF s.pointsHistoryIndex < Len(s.pointsHistory) - 1
    THEN set(s, [adjustedPoints |-> s.pointsHistory[s.pointsHistoryIndex + 2],
                 pointsHistoryIndex |-> s.pointsHistoryIndex + 1,
                 canUndo |-> TRUE,
                 canRedo |-> s.pointsHistoryIndex + 1 < Len(s.pointsHistory) - 1])
    ELSE s

clearPointsHistory(s) ==
    set(s, [adjustedPoints |-> <<>>,
            pointsHistory |-> << <<>> >>,
            pointsHistoryIndex |-> 0,
            canUndo |-> FALSE,
            canRedo |-> FALSE])

\* a field of a parsed object: undefined when the object lacks it
Field(obj, f) == IF f \in DOMAIN obj THEN obj[f] ELSE Undefined

\* v || d
OrElse(obj, f, d) == IF f \in DOMAIN obj /\ obj[f] \notin {"", Undefined} THEN obj[f] ELSE d

loadProjectData(s, projectData) ==
    set(s, [currentStep |-> Field(projectData, "currentStep"),
            uploadedImage |-> projectData.uploadedImage,
            patternAnalysis |-> projectData.patternAnalysis,
            adjustedPoints |-> projectData.adjustedPoints,
            pointDensity |-> projectData.pointDensity,
            detectionThreshold |-> projectData.detectionThreshold,
            minimumSpacing |-> projectData.minimumSpacing,
            weightingFactor |-> projectData.weightingFactor,
            frameCount |-> projectData.frameCount,
            lineWidth |-> projectData.lineWidth,
            modelColor |-> OrElse(projectData, "modelColor", "#00CCCC"),
            modelColor2 |-> OrElse(projectData, "modelColor2", "#1560BD"),
            useGradient |-> projectData.useGradient])

reset_keepHistory(s) ==
    set(s, [f \in DOMAIN initialState \ {"pointsHistory", "pointsHistoryIndex"}
                |-> initialState[f]])

reset(s) == set(s, [isDarkMode |-> s.isDarkMode] @@ initialState)

(***************************************************************************)
(* The sections that call the store: UploadSection, AnalysisSection,       *)
(* AdjustSection, View3DSection and the header of Layout.  AppContent      *)
(* mounts the section named by currentStep, so a section's useState values *)
(* last for as long as currentStep keeps its value.                        *)
(***************************************************************************)

NoFileError == "No image file available"
AnalysisFailedError == "Analysis failed. Using default pattern data."
NoSync == [points |-> <<>>, editMode |-> Null]
NoLoad == [file |-> Null, outcome |-> Null]
NotDragging == -1

CroppedImage == "data:image/png;base64,crop"
CroppedFile == "cropped.png"
BackendImageId == "img-1"
LocalImageId == "local-1"

EdgePoint ==
    [x |-> CoordScale \div 4, y |-> CoordScale \div 4, weight |-> ConfDen \div 2,
     feature_type |-> "edge"]
CenterPoint ==
    [x |-> CoordScale \div 2, y |-> CoordScale \div 2, weight |-> ConfDen,
     feature_type |-> "center"]

\* the lists useAdjustPoints delivers to AdjustSection
FetchedLists == {<<>>, <<EdgePoint>>}

\* the Math.random() points of runAnalysis, MaxMockPoints of them for the 50;
\* nothing writes to them, and detected_points holds them by value
MaxMockPoints == 1
MockPointLists == [1..MaxMockPoints -> {CenterPoint}]

\* where a click and a drag land on the canvas, as fractions of its size
ClickPositions == {[x |-> CoordScale \div 10, y |-> CoordScale \div 10]}
DragPositions == {[x |-> (CoordScale * 3) \div 4, y |-> CoordScale \div 2]}

NewRefs(objs, n) == [i \in 1..n |-> Len(objs) + i]
Contents(objs, refs) == [i \in 1..Len(refs) |-> objs[refs[i]]]
HasRoom(n) == Len(objects) + n <= MaxObjects
StepRoom(s) == s.currentHistoryIndex + 2 <= MaxStepHistory
PointsRoom(s) == s.pointsHistoryIndex + 2 <= MaxPointsHistory

StaysOn(s2, step) == store.currentStep = step /\ s2.currentStep = step

Detach(rs) == [k \in DOMAIN rs |-> [rs[k] EXCEPT !.attached = FALSE]]

\* useAdjustPoints as AdjustSection calls it
QueryEnabled(s) ==
    s.uploadedImage # Null /\ s.imageId # Null /\ s.editMode = "automatic"
HookKey(s) ==
    <<s.imageId, s.uploadedImage, s.pointDensity, s.detectionThreshold, s.minimumSpacing>>

\* the query after the store became s2: it fetches when AdjustSection mounts
\* with the query enabled, when the query becomes enabled and when its key
\* changes; a new key has no data yet
HookAfter(s2, hk) ==
    IF s2.currentStep # "adjust" \/ ~QueryEnabled(s2)
    THEN [hk EXCEPT !.fetching = FALSE]
    ELSE IF HookKey(s2) # HookKey(store)
    THEN [points |-> <<>>, fetching |-> TRUE]
    ELSE IF store.currentStep # "adjust" \/ ~QueryEnabled(store)
    THEN [hk EXCEPT !.fetching = TRUE]
    ELSE hk

\* one render after the store became s2, with the section state the handler
\* wrote (an .. dr) kept only by a section that stays mounted
Render(s2, an, err, rs, sy, dr, hk, cl, ld) ==
    /\ store' = s2
    /\ analyzing' = (StaysOn(s2, "analyze") /\ an)
    /\ analysisError' = IF StaysOn(s2, "analyze") THEN err ELSE Null
    /\ analysisRuns' = IF StaysOn(s2, "analyze") THEN rs ELSE Detach(rs)
    /\ synced' = IF StaysOn(s2, "adjust") THEN sy ELSE NoSync
    /\ draggedPointIndex' = IF StaysOn(s2, "adjust") THEN dr ELSE NotDragging
    /\ hook' = HookAfter(s2, hk)
    /\ cleared' = cl
    /\ lastLoad' = ld

\* cleared lasts until something writes another adjustedPoints
KeepCleared(s2) == IF s2.adjustedPoints = store.adjustedPoints THEN cleared ELSE {}

Commit(s2) ==
    Render(s2, analyzing, analysisError, analysisRuns, synced, draggedPointIndex, hook,
           KeepCleared(s2), NoLoad)

\* undo, redo, goBack and goForward: the steps after which cleared points
\* are still expected to be gone
CommitHistory(s2) ==
    Render(s2, analyzing, analysisError, analysisRuns, synced, draggedPointIndex, hook,
           cleared, NoLoad)

\* ---- effects ----
AnalysisDue ==
    /\ store.currentStep = "analyze"
    /\ store.uploadedImage # Null
    /\ store.patternAnalysis = NoAnalysis
    /\ ~analyzing
    /\ (store.uploadedImageFile # Null \/ analysisError # NoFileError)

SyncDue ==
    /\ store.currentStep = "adjust"
    /\ synced # [points |-> hook.points, editMode |-> store.editMode]

EffectDue == AnalysisDue \/ SyncDue

\* alert() blocks the page until it is dismissed
AlertOpen == lastLoad.outcome = "failed"

\* a user event reaches a control once the effects of the last render have
\* run; during a drag the pointer is on the canvas
UserOnHeader == ~AlertOpen /\ ~EffectDue /\ draggedPointIndex = NotDragging
UserOn(step) == store.currentStep = step /\ UserOnHeader

StoreInit ==
    /\ store = createStore
    /\ objects = <<>>
    /\ analyzing = FALSE
    /\ analysisError = Null
    /\ analysisRuns = <<>>
    /\ hook = [points |-> <<>>, fetching |-> FALSE]
    /\ synced = NoSync
    /\ draggedPointIndex = NotDragging
    /\ lastLoad = NoLoad
    /\ cleared = {}


(***************************************************************************)
(* Input images: RGBA rasters of ImgW x ImgH pixels (alpha is never read). *)
(* The colours are chosen so that the double-precision luminance sum and   *)
(* the integer one below truncate to the same byte.                        *)
(***************************************************************************)
Black == <<0, 0, 0>>
Red == <<27, 0, 0>>
Green == <<0, 14, 0>>
Blue == <<0, 0, 70>>

Images == 0..4

Pixel(img, x, y) ==
    CASE img = 0 -> Black                                   \* uniformly blank
      [] img = 1 -> Green                                   \* uniformly blank, not black
      [] img = 2 -> IF x >= 4 /\ x <= 7 /\ y >= 4 /\ y <= 7 THEN Green ELSE Black
      [] img = 3 -> IF ((x \div 2) + (y \div 2)) % 2 = 0 THEN Red ELSE Black
      [] OTHER   -> IF (x * x + 3 * y + x * y) % 5 < 2 THEN Red ELSE Blue

IsBlank(img) == \A x \in 0..(ImgW - 1), y \in 0..(ImgH - 1) : Pixel(img, x, y) = Pixel(img, 0, 0)

ImageDataOf(img) ==
    [width |-> ImgW, height |-> ImgH,
     data |-> [i \in 0..(ImgW * ImgH - 1) |-> Pixel(img, i % ImgW, i \div ImgW)]]

(***************************************************************************)
(* geometryDetection.ts                                                    *)
(***************************************************************************)
\* gray[idx] = 0.299 r + 0.587 g + 0.114 b, stored in a Uint8Array (truncated)
ToGray(imageData) ==
    [i \in DOMAIN imageData.data |->
        (299 * imageData.data[i][1] + 587 * imageData.data[i][2]
            + 114 * imageData.data[i][3]) \div 1000]

sobelX == <<-1, 0, 1, -2, 0, 2, -1, 0, 1>>
sobelY == <<-1, -2, -1, 0, 0, 0, 1, 2, 1>>

\* magnitude > threshold, for threshold >= 0, is gx^2 + gy^2 > threshold^2
applySobelFilter(gray, width, height, threshold) ==
    [i \in 0..(width * height - 1) |->
        LET x == i % width
            y == i \div width
            gx == SumSeq([k \in 1..9 |->
                    gray[(y + ((k - 1) \div 3) - 1) * width + (x + ((k - 1) % 3) - 1)] * sobelX[k]])
            gy == SumSeq([k \in 1..9 |->
                    gray[(y + ((k - 1) \div 3) - 1) * width + (x + ((k - 1) % 3) - 1)] * sobelY[k]])
        IN  IF x >= 1 /\ x < width - 1 /\ y >= 1 /\ y < height - 1
            THEN (IF gx * gx + gy * gy > threshold * threshold THEN 255 ELSE 0)
            ELSE 0]

windowSize == 3

\* for (v = windowSize; v < n - windowSize; v += 2): the number of iterations
SiteCount(n) == IF n - windowSize > windowSize THEN ((n - 2 * windowSize - 1) \div 2) + 1 ELSE 0

\* the window's pixels in loop order: [Ix, Iy] per pixel, both 0 where the bounds
\* test idxX < gray.length && idxY < gray.length skips the pixel
HarrisWindow(gray, width, x, y) ==
    [k \in 1..((2 * windowSize + 1) * (2 * windowSize + 1)) |->
        LET idx == (y + ((k - 1) \div (2 * windowSize + 1)) - windowSize) * width
                    + (x + ((k - 1) % (2 * windowSize + 1)) - windowSize)
        IN  IF idx + 1 < Cardinality(DOMAIN gray) /\ idx + width < Cardinality(DOMAIN gray)
            THEN [Ix |-> gray[idx + 1] - gray[idx], Iy |-> gray[idx + width] - gray[idx]]
            ELSE [Ix |-> 0, Iy |-> 0]]

\* 25 * response, response = det - k * trace * trace with k = 0.04
Response25(Ixx, Iyy, Ixy) == 25 * (Ixx * Iyy - Ixy * Ixy) - (Ixx + Iyy) * (Ixx + Iyy)

HarrisSums(win) ==
    Response25(SumSeq([k \in DOMAIN win |-> win[k].Ix * win[k].Ix]),
               SumSeq([k \in DOMAIN win |-> win[k].Iy * win[k].Iy]),
               SumSeq([k \in DOMAIN win |-> win[k].Ix * win[k].Iy]))

HarrisResponse25(gray, width, x, y) == HarrisSums(Enumerated(HarrisWindow(gray, width, x, y)))

\* corners in raster order; confidence = response / 1000000, in units of 1/ConfDen
CornerAt(gray, width, x, y) ==
    [x |-> x, y |-> y, confidence |-> HarrisResponse25(gray, width, x, y)]

detectCorners(gray, width, height, threshold) ==
    SelectSeq([k \in 1..(SiteCount(width) * SiteCount(height)) |->
                  CornerAt(gray, width,
                           windowSize + 2 * ((k - 1) % SiteCount(width)),
                           windowSize + 2 * ((k - 1) \div SiteCount(width)))],
              LAMBDA c : c.confidence > 25 * threshold * 100)

curveRadius == 5

\* the number of edge pixels in the (2 radius + 1)^2 window, clipped to the image
EdgeCount(edges, x, y, width, height) ==
    Cardinality({d \in ((0 - curveRadius)..curveRadius) \X ((0 - curveRadius)..curveRadius) :
        /\ x + d[1] >= 0 /\ x + d[1] < width
        /\ y + d[2] >= 0 /\ y + d[2] < height
        /\ edges[(y + d[2]) * width + (x + d[1])] > 0})

\* curvature = edgeCount / 121, in units of 1/ConfDen (rounded down)
CurveArea == (curveRadius * 2 + 1) * (curveRadius * 2 + 1)

CurvatureOf(n) == n * (ConfDen \div CurveArea) + (n * (ConfDen % CurveArea)) \div CurveArea

calculateCurvature(edges, x, y, width, height) == CurvatureOf(EdgeCount(edges, x, y, width, height))

\* a sampled position: its edge value and its curvature
CurveAt(edges, width, height, x, y) ==
    [x |-> x, y |-> y, edge |-> edges[y * width + x],
     confidence |-> calculateCurvature(edges, x, y, width, height)]

StripEdge(kept) ==
    [k \in 1..Len(kept) |-> [x |-> kept[k].x, y |-> kept[k].y,
                             confidence |-> kept[k].confidence]]

\* for (v = 0; v < n; v += 5): sampled positions in raster order;
\* curvature > 0.3 in units of 1 / ConfDen (no edge count gives exactly 0.3)
detectCurvePoints(edges, width, height) ==
    StripEdge(SelectSeq(
        [k \in 1..((((width - 1) \div 5) + 1) * (((height - 1) \div 5) + 1)) |->
            CurveAt(edges, width, height,
                    5 * ((k - 1) % (((width - 1) \div 5) + 1)),
                    5 * ((k - 1) \div (((width - 1) \div 5) + 1)))],
        LAMBDA c : c.edge > 0 /\ c.confidence > 3 * (ConfDen \div 10)))

DistSq(a, b) == (a.x - b.x) * (a.x - b.x) + (a.y - b.y) * (a.y - b.y)

RECURSIVE FilterFrom(_, _, _)
FilterFrom(features, filtered, minSpacing) ==
    IF features = <<>> THEN filtered
    ELSE LET feature == Head(features)
             tooClose == \E k \in 1..Len(filtered) :
                            DistSq(feature, filtered[k]) < minSpacing * minSpacing
         IN  FilterFrom(Tail(features),
                        IF tooClose THEN filtered ELSE Append(filtered, feature),
                        minSpacing)

RECURSIVE FilterLastOnly(_, _, _)
FilterLastOnly(features, filtered, minSpacing) ==
    IF features = <<>> THEN filtered
    ELSE LET feature == Head(features)
             tooClose == /\ filtered # <<>>
                         /\ DistSq(feature, filtered[Len(filtered)]) < minSpacing * minSpacing
         IN  FilterLastOnly(Tail(features),
                            IF tooClose THEN filtered ELSE Append(filtered, feature),
                            minSpacing)

filterBySpacing_lastOnly(features, minSpacing) == FilterLastOnly(features, <<>>, minSpacing)

filterBySpacing(features, minSpacing) == FilterFrom(features, <<>>, minSpacing)

\* Array.prototype.sort((a, b) => b.confidence - a.confidence): stable, descending
RECURSIVE InsertDesc(_, _)
InsertDesc(sorted, f) ==
    IF sorted = <<>> THEN <<f>>
    ELSE IF Head(sorted).confidence >= f.confidence
         THEN <<Head(sorted)>> \o InsertDesc(Tail(sorted), f)
         ELSE <<f>> \o sorted

RECURSIVE SortInto(_, _)
SortInto(features, acc) ==
    IF features = <<>> THEN acc ELSE SortInto(Tail(features), InsertDesc(acc, Head(features)))

SortByConfidence(features) == SortInto(features, <<>>)

\* Array.prototype.slice(0, n) for n >= 0
Slice0(s, n) == SubSeq(s, 1, Min(Len(s), n))

\* ps.map(p => ({ ...p, type }))
WithType(ps, type) ==
    [k \in 1..Len(ps) |-> [type |-> type, x |-> ps[k].x, y |-> ps[k].y,
                           confidence |-> ps[k].confidence]]

\* corners first, then curve points
FeaturesOfGray(gray, width, height, threshold) ==
    WithType(detectCorners(gray, width, height, threshold), "corner")
    \o WithType(detectCurvePoints(
                    Enumerated(applySobelFilter(gray, width, height, threshold)),
                    width, height), "curve")

AllFeatures(imageData, threshold) ==
    FeaturesOfGray(Enumerated(ToGray(imageData)), imageData.width, imageData.height, threshold)

\* maxPoints = Math.floor((density / 100) * 200 + 20)
DetectCap(density) == (density * 200) \div 100 + 20

\* from allFeatures on: filter by spacing, then sort by confidence, then slice
SelectFeatures(allFeatures, options) ==
    Slice0(SortByConfidence(filterBySpacing(allFeatures, options.minSpacing)),
           DetectCap(options.density))

detectFeaturesFromImageData(imageData, options) ==
    SelectFeatures(AllFeatures(imageData, options.threshold), options)

\* features.map without the division by the canvas size (pixel coordinates)
FeaturesToPoints_pixels(features, width, height) ==
    [k \in 1..Len(features) |->
        [x |-> features[k].x * CoordScale,
         y |-> features[k].y * CoordScale,
         weight |-> features[k].confidence,
         feature_type |-> IF features[k].type \in {"corner", "intersection"}
                          THEN "center" ELSE "edge"]]

\* features.map(f => ({x: f.x / width, y: f.y / height, weight, feature_type}))
FeaturesToPoints(features, width, height) ==
    [k \in 1..Len(features) |->
        [x |-> (features[k].x * CoordScale) \div width,
         y |-> (features[k].y * CoordScale) \div height,
         weight |-> features[k].confidence,
         feature_type |-> IF features[k].type \in {"corner", "intersection"}
                          THEN "center" ELSE "edge"]]

(***************************************************************************)
(* useAdjustPoints.ts: generateMockPoints                                  *)
(*                                                                         *)
(* Math.random() is a pseudo-random generator whose seed the program does  *)
(* not control: a run is modelled by a generator state rng, advanced on    *)
(* every call, that starts from a seed chosen nondeterministically.        *)
(***************************************************************************)
NextRandom(rng) == (1229 * rng + 1) % 2048

\* the value of Math.random() in rng, as floor(value * n)
RandomBelow(rng, n) == (rng * n) \div 2048

\* Math.random() < edgeRatio, edgeRatio = threshold / 255 (values in hundredths)
IsEdgeDraw(rng, threshold) == RandomBelow(rng, 100) * 255 < threshold * 100

\* 1000 * cos and 1000 * sin of k * (2 pi / 12)
Cos1000(k) == <<1000, 866, 500, 0, -500, -866, -1000, -866, -500, 0, 500, 866>>[(k % 12) + 1]
Sin1000(k) == Cos1000(k + 9)

\* one pass of the do-while body: three calls of Math.random(), then x and y
\* (in units of 1/CoordScale); the angle is drawn from 12 directions
\* radius = 0.3 + Math.random() * 0.2
MockRadius(r) == (3 * CoordScale) \div 10 + (RandomBelow(r, 100) * 2 * CoordScale) \div 1000

MockDrawOf(r1, r2, r3, threshold) ==
    IF IsEdgeDraw(r1, threshold)
    THEN [x |-> CoordScale \div 2 + (Cos1000(RandomBelow(r2, 12)) * MockRadius(r3)) \div 1000,
          y |-> CoordScale \div 2 + (Sin1000(RandomBelow(r2, 12)) * MockRadius(r3)) \div 1000,
          rng |-> r3]
    ELSE [x |-> (2 * CoordScale) \div 10 + (RandomBelow(r2, 100) * 6 * CoordScale) \div 1000,
          y |-> (2 * CoordScale) \div 10 + (RandomBelow(r3, 100) * 6 * CoordScale) \div 1000,
          rng |-> r3]

MockDraw(rng, threshold) ==
    MockDrawOf(NextRandom(rng), NextRandom(NextRandom(rng)),
               NextRandom(NextRandom(NextRandom(rng))), threshold)

maxAttempts == 50

\* minDist = minSpacing / 100, in units of 1/CoordScale
MockMinDist(minSpacing) == (minSpacing * CoordScale) \div 100

\* Math.sqrt(dx * dx + dy * dy) < minDist for some point placed so far
MockTooClose(points, d, minSpacing) ==
    \E k \in 1..Len(points) :
        DistSq(points[k], d) < MockMinDist(minSpacing) * MockMinDist(minSpacing)

\* the do-while loop: [attempts, x, y, rng] when it ends; d is the pass's draw
RECURSIVE MockPlace(_, _, _, _)
MockPass(points, d, attempts, params) ==
    IF ~MockTooClose(points, d, params.minSpacing)
    THEN [attempts |-> attempts, x |-> d.x, y |-> d.y, rng |-> d.rng]
    ELSE IF attempts + 1 < maxAttempts
         THEN MockPlace(points, d.rng, attempts + 1, params)
         ELSE [attempts |-> attempts + 1, x |-> d.x, y |-> d.y, rng |-> d.rng]

MockPlace(points, rng, attempts, params) ==
    MockPass(points, MockDraw(rng, params.threshold), attempts, params)

\* totalPoints = Math.floor((density / 100) * 180 + 20)
MockTotalPoints(density) == (density * 180) \div 100 + 20

\* points.push({...}): feature_type takes one more Math.random(), r4
MockPoint(p, r4, params) ==
    [x |-> Max(0, Min(CoordScale, p.x)),
     y |-> Max(0, Min(CoordScale, p.y)),
     weight |-> params.weighting,
     feature_type |-> IF IsEdgeDraw(r4, params.threshold) THEN "edge" ELSE "center"]

\* the for loop from iteration i on; p is what the do-while loop ended with
RECURSIVE MockLoop(_, _, _, _)
MockIteration(i, points, p, params) ==
    IF p.attempts < maxAttempts
    THEN MockLoop(i + 1, Append(points, MockPoint(p, NextRandom(p.rng), params)),
                  NextRandom(p.rng), params)
    ELSE MockLoop(i + 1, points, p.rng, params)

MockLoop(i, points, rng, params) ==
    IF i >= MockTotalPoints(params.density) THEN points
    ELSE MockIteration(i, points, MockPlace(points, rng, 0, params), params)

generateMockPoints(params, seed) == MockLoop(0, <<>>, seed, params)

(***************************************************************************)
(* The backend's POST /points/extract, which is not part of the client:    *)
(* it answers a request with at most max_points points (none for a blank   *)
(* image), the same points for the same image and request, or it fails.    *)
(***************************************************************************)
BackendPoints(img, request) ==
    [k \in 1..(IF IsBlank(img) THEN 0 ELSE Min(MaxBackendPoints, Max(0, request.max_points))) |->
        [x |-> (k * 7 * CoordScale) \div 100, y |-> ((k % 5) * 2 * CoordScale) \div 10,
         weight |-> request.weight_edges, feature_type |-> "edge"]]

(***************************************************************************)
(* useAdjustPoints.ts: the hook                                            *)
(***************************************************************************)
Densities == {10, 20}
Thresholds == {0, 100}
\* 0 is what the number input of the spacing control gives when it is emptied
Spacings == {0, 1, 5}
MaxPointsChoices == {10, 100}

ParamChoices ==
    [density : Densities, threshold : Thresholds, minSpacing : Spacings,
     weighting : {ConfDen}, weightEdges : {ConfDen},
     weightIntersections : {(ConfDen * 3) \div 2}, weightSymmetry : {(ConfDen * 6) \div 5},
     maxPoints : MaxPointsChoices]

Seeds == 0..(MaxSeed - 1)

\* the argument of apiClient.extractPoints (density in 1/100, threshold in 1/255)
ExtractRequest(id, p) ==
    [image_id |-> id, density |-> p.density, threshold |-> p.threshold,
     min_distance |-> Max(1, p.minSpacing),
     weight_edges |-> p.weightEdges, weight_intersections |-> p.weightIntersections,
     weight_symmetry |-> p.weightSymmetry, max_points |-> p.maxPoints]

\* apiClient.extractPoints: the body of POST /points/extract; a `??` default
\* replaces only a field the caller left undefined, and queryFn sets every field
extractPoints(params) ==
    [image_id |-> params.image_id, density |-> params.density, threshold |-> params.threshold,
     min_distance |-> params.min_distance,
     weight_edges |-> params.weight_edges,
     weight_intersections |-> params.weight_intersections,
     weight_symmetry |-> params.weight_symmetry, max_points |-> params.max_points]

DetectOptions(p) == [threshold |-> p.threshold, minSpacing |-> p.minSpacing, density |-> p.density]

\* the candidates and the result of detectFeaturesFromImageData, per image and options
\* (each entry evaluated once)
DetectionEntry(allFeatures, options) ==
    [candidates |-> allFeatures, features |-> SelectFeatures(allFeatures, options)]

DetectionTable ==
    Enumerated([img \in Images |-> Enumerated([p \in {DetectOptions(q) : q \in ParamChoices} |->
        DetectionEntry(AllFeatures(ImageDataOf(img), p.threshold), p)])])

\* detectGeometricFeatures(imageUrl, options), the image behind imageUrl being img
detectGeometricFeatures(img, options) ==
    FeaturesToPoints(DetectionTable[img][options].features, ImgW, ImgH)

MockOptions(p) == [density |-> p.density, threshold |-> p.threshold,
                   minSpacing |-> p.minSpacing, weighting |-> p.weighting]

\* generateMockPoints per parameters and seed (each entry evaluated once)
MockTable ==
    Enumerated([p \in {MockOptions(q) : q \in ParamChoices} |->
        Enumerated([seed \in Seeds |-> generateMockPoints(p, seed)])])

\* the final fallback: id `mock-...` with generateMockPoints(params)
MockResult(seed) == [id |-> "mock", points |-> MockTable[MockOptions(debouncedParams)][seed]]

\* the local result returned without the test of detectedPoints.length
LocalOrMock_untested(detectedPoints, seed) == [id |-> "local", points |-> detectedPoints]

\* if (detectedPoints.length > 0) return the local result, else fall through
LocalOrMock(detectedPoints, seed) ==
    IF Len(detectedPoints) > 0 THEN [id |-> "local", points |-> detectedPoints]
    ELSE MockResult(seed)

\* queryFn after the API call failed: geometric detection, then mock data
QueryFallback(seed) ==
    IF useGeometricDetection /\ imageUrl # Null
    THEN LocalOrMock(detectGeometricFeatures(image, DetectOptions(debouncedParams)), seed)
    ELSE MockResult(seed)

\* queryFn: apiOk is whether apiClient.extractPoints resolved
QueryFn(apiOk, seed) ==
    IF imageId = Null THEN [rejected |-> "No image ID provided"]
    ELSE IF apiOk
         THEN [id |-> "backend",
               points |-> BackendPoints(image,
                                        extractPoints(ExtractRequest(imageId, debouncedParams)))]
         ELSE QueryFallback(seed)

\* what the run recorded of detectFeaturesFromImageData (its local allFeatures and result)
DetectionOf(apiOk) ==
    IF imageId # Null /\ ~apiOk /\ useGeometricDetection /\ imageUrl # Null
    THEN [ran |-> TRUE] @@ DetectionTable[image][DetectOptions(debouncedParams)]
    ELSE [ran |-> FALSE, candidates |-> <<>>, features |-> <<>>]

\* useQuery settles a run of queryFn: data on success, error on rejection
SettleWith(result, apiOk) ==
    /\ runs < MaxRuns
    /\ IF "rejected" \in DOMAIN result
       THEN /\ error' = result.rejected
            /\ data' = data
       ELSE /\ error' = NoError
            /\ data' = result
    /\ detected' = DetectionOf(apiOk)
    /\ source' = [api |-> IF imageId = Null THEN "none"
                          ELSE IF apiOk THEN "resolved" ELSE "rejected",
                  settled |-> IF "rejected" \in DOMAIN result THEN "error" ELSE "success"]
    /\ prev' = [source |-> source, data |-> data]
    /\ runs' = runs + 1
    /\ UNCHANGED <<imageId, imageUrl, image, useGeometricDetection, debouncedParams>>

Settle(apiOk, seed) == SettleWith(QueryFn(apiOk, seed), apiOk)

\* the query runs by itself while enabled (enabled && !!imageId): when the
\* component mounts and, staleTime being 0, whenever it mounts again
RunQuery ==
    /\ imageId # Null
    /\ \E apiOk \in BOOLEAN, seed \in Seeds : Settle(apiOk, seed)
    /\ UNCHANGED <<meshVars, debounceVars, storeVars>>

\* refetch() runs queryFn whether or not the query is enabled
Refetch ==
    /\ \E apiOk \in BOOLEAN, seed \in Seeds : Settle(apiOk, seed)
    /\ UNCHANGED <<meshVars, debounceVars, storeVars>>

NoSource == [api |-> "none", settled |-> "none"]

ExtractInit ==
    /\ imageId \in {Null, "img-1"}
    /\ imageUrl \in {Null, "blob:1"}
    /\ image \in Images
    /\ useGeometricDetection \in BOOLEAN
    /\ debouncedParams \in ParamChoices
    /\ data = NoData
    /\ error = NoError
    /\ detected = [ran |-> FALSE, candidates |-> <<>>, features |-> <<>>]
    /\ source = NoSource
    /\ prev = [source |-> NoSource, data |-> NoData]
    /\ runs = 0

MeshIdle ==
    /\ pointsExtractionId = Null
    /\ targetShape = "auto"
    /\ mutation = [status |-> "idle"]
    /\ modelSource = NoSource
    /\ modelCache = NoData
    /\ adjustedPoints = <<>>
    /\ view3dShown = FALSE
    /\ modelData = NoData

\* the debounce effect left alone: the arguments as first rendered, no timer
DebounceIdle ==
    /\ hookArgs = debouncedParams
    /\ timers = {}
    /\ now = 0
    /\ changes = <<>>
    /\ requested = <<>>

Init == ExtractInit /\ MeshIdle /\ DebounceIdle /\ StoreInit

Next == RunQuery \/ Refetch

Spec == Init /\ [][Next]_vars

(***************************************************************************)
(* Meshes.  The code computes a vertex [x, y, z] from its position in the  *)
(* vertex loops and a radius; the model holds the vertex as that triple:   *)
(* <<ring, segment, radius>> on the sphere, <<i, j, r>> on a torus, r the  *)
(* tube radius with the displacement in it.  A normal depends on the loop  *)
(* position only and is held as <<i, j>>.  Faces hold vertex indices from  *)
(* 0, as in the code.                                                      *)
(***************************************************************************)
RadiusScale == 10 * 100
TwoPi == 48 * 1000

\* 0.5 rad = TwoPi / (4 pi)
HalfRad == (TwoPi * 10000) \div 125664

Abs(a) == IF a < 0 THEN 0 - a ELSE a

\* the % of JavaScript: the result has the sign of the dividend
JsMod(a, m) == IF a >= 0 THEN a % m ELSE 0 - ((0 - a) % m)

\* position k (from 1) of the vertex loops: for o in 0..outer, for n in 0..inner
GridPosition(k, inner) == <<(k - 1) \div (inner + 1), (k - 1) % (inner + 1)>>

\* the two faces pushed for the quad at v0: [v0, v1, v2] and [v2, v1, v3]
QuadFaces(v0, inner) ==
    << <<v0, v0 + inner + 1, v0 + 1>>, <<v0 + 1, v0 + inner + 1, v0 + inner + 2>> >>

\* the face loops run over o <= outer and n <= inner
GridFaces_inclusive(outer, inner) ==
    [k \in 1..(2 * (outer + 1) * (inner + 1)) |->
        QuadFaces((((k - 1) \div 2) \div (inner + 1)) * (inner + 1)
                    + (((k - 1) \div 2) % (inner + 1)), inner)[((k - 1) % 2) + 1]]

\* the face loops: for o in 0..outer-1, for n in 0..inner-1, v0 = o * (inner + 1) + n
GridFaces(outer, inner) ==
    [k \in 1..(2 * outer * inner) |->
        QuadFaces((((k - 1) \div 2) \div inner) * (inner + 1)
                    + (((k - 1) \div 2) % inner), inner)[((k - 1) % 2) + 1]]

\* the return statement of the mock generators of useGenerateModel
MockModelData(vertices, faces, normals, bounding_box) ==
    [vertices |-> vertices, faces |-> faces, normals |-> normals,
     vertex_count |-> Len(vertices), face_count |-> Len(faces),
     bounding_box |-> bounding_box]

sphereSegments == 16
sphereRings == 16
sphereRadius == 1 * RadiusScale

generateSphereModel ==
    MockModelData(
        [k \in 1..((sphereRings + 1) * (sphereSegments + 1)) |->
            GridPosition(k, sphereSegments) \o <<sphereRadius>>],
        GridFaces(sphereRings, sphereSegments),
        [k \in 1..((sphereRings + 1) * (sphereSegments + 1)) |->
            GridPosition(k, sphereSegments)],
        <<0 - sphereRadius, 0 - sphereRadius, 0 - sphereRadius,
          sphereRadius, sphereRadius, sphereRadius>>)

torusMajorSegments == 32
torusMinorSegments == 16
torusMajorRadius == 1 * RadiusScale
torusMinorRadius == (3 * RadiusScale) \div 10

generateTorusModel ==
    MockModelData(
        [k \in 1..((torusMajorSegments + 1) * (torusMinorSegments + 1)) |->
            GridPosition(k, torusMinorSegments) \o <<torusMinorRadius>>],
        GridFaces(torusMajorSegments, torusMinorSegments),
        [k \in 1..((torusMajorSegments + 1) * (torusMinorSegments + 1)) |->
            GridPosition(k, torusMinorSegments)],
        <<0 - torusMajorRadius - torusMinorRadius, 0 - torusMinorRadius,
          0 - torusMajorRadius - torusMinorRadius,
          torusMajorRadius + torusMinorRadius, torusMinorRadius,
          torusMajorRadius + torusMinorRadius>>)

\* shape === 'torus' ? generateTorusModel() : generateSphereModel()
generateMockModel(shape) ==
    [id |-> "mock", shape |-> IF shape = "torus" THEN "torus" ELSE "sphere"]
    @@ (IF shape = "torus" THEN generateTorusModel ELSE generateSphereModel)

(***************************************************************************)
(* View3DSection: generateMockTorusFromPoints                              *)
(***************************************************************************)
mockMajorSegments == 48
mockMinorSegments == 24
mockMajorRadius == (12 * RadiusScale) \div 10
mockMinorRadius == (4 * RadiusScale) \div 10

\* Math.atan2(y, x) on the axes, on the diagonals and at the origin
Atan2(y, x) ==
    CASE y = 0 /\ x >= 0 -> 0
      [] y = 0 /\ x < 0 -> TwoPi \div 2
      [] x = 0 /\ y > 0 -> TwoPi \div 4
      [] x = 0 /\ y < 0 -> 0 - (TwoPi \div 4)
      [] y = x /\ x > 0 -> TwoPi \div 8
      [] y = x /\ x < 0 -> 0 - ((3 * TwoPi) \div 8)
      [] y = 0 - x /\ x > 0 -> 0 - (TwoPi \div 8)
      [] y = 0 - x /\ x < 0 -> (3 * TwoPi) \div 8

\* angle = Math.atan2(py, px) with px = (p.x - 0.5) * 2, py = (p.y - 0.5) * 2
PointAngle(p) == Atan2(2 * p.y - CoordScale, 2 * p.x - CoordScale)

\* Math.abs(((angle - theta + Math.PI) % (Math.PI * 2)) - Math.PI)
AngleDiff(angle, theta) == Abs(JsMod(angle - theta + TwoPi \div 2, TwoPi) - TwoPi \div 2)

\* if (angleDiff < 0.5) displacement += 0.1 * (1 - angleDiff / 0.5)
DisplacementOf(angleDiff) ==
    IF angleDiff < HalfRad THEN (RadiusScale * (HalfRad - angleDiff)) \div (10 * HalfRad) ELSE 0

\* the displacement accumulated by points.forEach at major angle theta
Displacement(points, theta) ==
    SumSeq([k \in 1..Len(points) |-> DisplacementOf(AngleDiff(PointAngle(points[k]), theta))])

\* the vertex at loop position <<i, j>>: theta = (i / majorSegments) * 2 pi
MockTorusVertex(points, ij) ==
    ij \o <<mockMinorRadius + Displacement(points, (ij[1] * TwoPi) \div mockMajorSegments)>>

generateMockTorusFromPoints(points) ==
    [vertices |-> [k \in 1..((mockMajorSegments + 1) * (mockMinorSegments + 1)) |->
                      MockTorusVertex(points, GridPosition(k, mockMinorSegments))],
     faces |-> GridFaces(mockMajorSegments, mockMinorSegments),
     normals |-> [k \in 1..((mockMajorSegments + 1) * (mockMinorSegments + 1)) |->
                      GridPosition(k, mockMinorSegments)]]

(***************************************************************************)
(* CymaticGeometry: the edges of a mesh                                    *)
(***************************************************************************)
\* the three keys `${min}-${max}` of a face, as pairs
FaceEdges(f) ==
    {<<Min(f[1], f[2]), Max(f[1], f[2])>>,
     <<Min(f[2], f[3]), Max(f[2], f[3])>>,
     <<Min(f[3], f[1]), Max(f[3], f[1])>>}

\* edgeSet after faces.forEach; edgeList holds each of its keys once
edges(faces) == UNION {FaceEdges(faces[k]) : k \in 1..Len(faces)}

(***************************************************************************)
(* CymaticGeometry: the interconnection lines of the 'lines' render mode   *)
(*                                                                         *)
(* A vertex here is <<x, y, z>> in units of 1 / VertexUnit, its distances  *)
(* compared by their squares and, for the distances from the center, times *)
(* the vertex count squared: the order and the tests are those of the      *)
(* code in exact arithmetic.                                               *)
(***************************************************************************)
VertexUnit == 4
maxLines == 300
layers == 8

VertexDistSq(a, b) ==
    (a[1] - b[1]) * (a[1] - b[1]) + (a[2] - b[2]) * (a[2] - b[2])
        + (a[3] - b[3]) * (a[3] - b[3])

\* Math.min(300, Math.floor(vertices.length * 0.5))
maxConnections(vertices) == Min(maxLines, Len(vertices) \div 2)

\* vertices.reduce(...): the sum of the vertices (the center times their number)
RECURSIVE SumCoordinate(_, _, _, _)
SumCoordinate(vertices, c, from, to) ==
    IF from > to THEN 0
    ELSE IF from = to THEN vertices[from][c]
    ELSE SumCoordinate(vertices, c, from, (from + to) \div 2)
             + SumCoordinate(vertices, c, (from + to) \div 2 + 1, to)

VertexSum(vertices) ==
    <<SumCoordinate(vertices, 1, 1, Len(vertices)),
      SumCoordinate(vertices, 2, 1, Len(vertices)),
      SumCoordinate(vertices, 3, 1, Len(vertices))>>

Times(n, v) == <<n * v[1], n * v[2], n * v[3]>>

\* distFromCenter of every vertex (squared, times the vertex count squared)
CenterKeys(vertices, sum) ==
    [k \in DOMAIN vertices |-> VertexDistSq(Times(Len(vertices), vertices[k]), sum)]

\* Array.prototype.sort is stable: the place of element i in the sorted array
Ranks(keys) ==
    [i \in DOMAIN keys |->
        1 + Cardinality({j \in DOMAIN keys :
                            keys[j] < keys[i] \/ (keys[j] = keys[i] /\ j < i)})]

\* the first n elements of the array sorted by keys, as indices into it
SortedFirst(ranks, n) ==
    [k \in 1..Min(n, Len(ranks)) |-> CHOOSE i \in DOMAIN ranks : ranks[i] = k]

\* vertexData after the sort: the positions in the order of distFromCenter
SortedPositions(vertices, order) == [k \in DOMAIN order |-> vertices[order[k]]]

vertexData(vertices) ==
    SortedPositions(vertices,
        SortedFirst(Ranks(CenterKeys(vertices, VertexSum(vertices))), Len(vertices)))

\* Math.floor((layer / layers) * vertexData.length)
LayerIndex(layer, n) == (layer * n) \div layers

\* array.slice(from, to), both from 0
Slice(s, from, to) == SubSeq(s, from + 1, Min(to, Len(s)))

\* dist < 0.5
Near(a, b) == 4 * VertexDistSq(a, b) < VertexUnit * VertexUnit

\* allLines.push([v1.pos.clone(), v2.pos.clone(), connectionOrder++]): every
\* push increments connectionOrder, which is then the number of lines so far
PushLine(allLines, v1, v2) == Append(allLines, <<v1, v2, Len(allLines)>>)

\* for (j = i + 1; j < Math.min(i + 4, layerVertices.length) && ...; j++)
RECURSIVE SameLayerLoop(_, _, _, _, _)
SameLayerLoop(layerVertices, i, j, allLines, max) ==
    IF j < Min(i + 4, Len(layerVertices)) /\ Len(allLines) < max
    THEN SameLayerLoop(layerVertices, i, j + 1,
                       IF Near(layerVertices[i + 1], layerVertices[j + 1])
                       THEN PushLine(allLines, layerVertices[i + 1], layerVertices[j + 1])
                       ELSE allLines,
                       max)
    ELSE allLines

\* the slice of the next layer sorted by its distance to v1, .slice(0, 2)
NearestInNextLayer(v1, nextLayer) ==
    SortedPositions(nextLayer,
        SortedFirst(Ranks([k \in DOMAIN nextLayer |-> VertexDistSq(v1, nextLayer[k])]), 2))

\* nearestInNextLayer.forEach: push while allLines.length < maxConnections
RECURSIVE NextLayerLoop(_, _, _, _)
NextLayerLoop(v1, nearest, allLines, max) ==
    IF nearest = <<>> THEN allLines
    ELSE NextLayerLoop(v1, Tail(nearest),
                       IF Len(allLines) < max THEN PushLine(allLines, v1, Head(nearest))
                       ELSE allLines,
                       max)

\* if (layer < layers - 1 && allLines.length < maxConnections) { ... }
ConnectNextLayer(sorted, layer, v1, allLines, max) ==
    IF layer < layers - 1 /\ Len(allLines) < max
       /\ LayerIndex(layer + 1, Len(sorted)) < Len(sorted)
    THEN NextLayerLoop(v1,
             NearestInNextLayer(v1, Slice(sorted, LayerIndex(layer + 1, Len(sorted)),
                                          Min(LayerIndex(layer + 2, Len(sorted)), Len(sorted)))),
             allLines, max)
    ELSE allLines

\* for (i = 0; i < layerVertices.length && allLines.length < maxConnections; i++)
RECURSIVE VertexLoop(_, _, _, _, _, _)
VertexLoop(sorted, layer, layerVertices, i, allLines, max) ==
    IF i < Len(layerVertices) /\ Len(allLines) < max
    THEN VertexLoop(sorted, layer, layerVertices, i + 1,
                    ConnectNextLayer(sorted, layer, layerVertices[i + 1],
                                     SameLayerLoop(layerVertices, i, i + 1, allLines, max),
                                     max),
                    max)
    ELSE allLines

\* for (layer = 0; layer < layers; layer++)
RECURSIVE LayerLoop(_, _, _, _)
LayerLoop(sorted, layer, allLines, max) ==
    IF layer < layers
    THEN LayerLoop(sorted, layer + 1,
                   VertexLoop(sorted, layer,
                              Slice(sorted, LayerIndex(layer, Len(sorted)),
                                    LayerIndex(layer + 1, Len(sorted))),
                              0, allLines, max),
                   max)
    ELSE allLines

RenderModes == {"solid", "wireframe", "lines", "points"}

cymaticLines(vertices, renderMode) ==
    IF renderMode # "lines" \/ Len(vertices) = 0 THEN <<>>
    ELSE LayerLoop(vertexData(vertices), 0, <<>>, maxConnections(vertices))

\* Math.floor(cymaticLines.length * animationProgress), the progress a
\* fraction <<numerator, denominator>>
visibleLineCount(lines, progress) == (Len(lines) * progress[1]) \div progress[2]

\* the vertex lists handed to CymaticGeometry: VertexCounts vertices on a
\* grid of 3 x 2, its cells spacing / VertexUnit apart
MaxVertices == 640
VertexCounts == {0, 1, 8, 9, 16, 17, 40, MaxVertices}
VertexSpacings == {0, 1, 2, 4}
GridVertex(k, spacing) == <<(k % 3) * spacing, ((k \div 3) % 2) * spacing, 0>>
VertexLists ==
    [p \in VertexCounts \X VertexSpacings |-> [k \in 1..p[1] |-> GridVertex(k, p[2])]]

\* cymaticLines per vertex list (each entry evaluated once)
CymaticTable == Enumerated([p \in DOMAIN VertexLists |-> cymaticLines(VertexLists[p], "lines")])

\* useMemo on [vertices, renderMode]
CymaticLinesOf(p, renderMode) ==
    IF renderMode = "lines" THEN CymaticTable[p] ELSE cymaticLines(VertexLists[p], renderMode)

(***************************************************************************)
(* View3DSection and useGenerateModel as processes                         *)
(***************************************************************************)
MaxViewPoints == 2

\* points on the rim of the unit square, as the adjust step delivers them
PointChoices ==
    {[x |-> CoordScale, y |-> CoordScale \div 2, weight |-> ConfDen, feature_type |-> "edge"],
     [x |-> 0, y |-> 0, weight |-> ConfDen \div 2, feature_type |-> "center"],
     [x |-> CoordScale \div 2, y |-> CoordScale, weight |-> ConfDen, feature_type |-> "edge"],
     [x |-> CoordScale \div 2, y |-> CoordScale, weight |-> ConfDen \div 4,
      feature_type |-> "edge"]}

PointLists == UNION {[1..n -> PointChoices] : n \in 0..MaxViewPoints}

\* generateMockTorusFromPoints per point list (each entry evaluated once)
MockTorusTable == Enumerated([points \in PointLists |-> generateMockTorusFromPoints(points)])

\* the effect on [adjustedPoints]: setModelData only for a non-empty list
ModelEffect(points, current) ==
    IF Len(points) > 0 THEN MockTorusTable[points] ELSE current

\* View3DSection mounts: modelData starts as null, then the effect runs
ShowView3D ==
    /\ ~view3dShown
    /\ view3dShown' = TRUE
    /\ modelData' = ModelEffect(adjustedPoints, NoData)
    /\ UNCHANGED <<pointsExtractionId, targetShape, mutation, modelSource, modelCache,
                   adjustedPoints>>
    /\ UNCHANGED <<extractVars, debounceVars, storeVars>>

\* View3DSection unmounts: its state is dropped
LeaveView3D ==
    /\ view3dShown
    /\ view3dShown' = FALSE
    /\ modelData' = NoData
    /\ UNCHANGED <<pointsExtractionId, targetShape, mutation, modelSource, modelCache,
                   adjustedPoints>>
    /\ UNCHANGED <<extractVars, debounceVars, storeVars>>

\* the store's adjustedPoints becomes points (by whichever store action); a
\* mounted View3DSection renders again and its effect on [adjustedPoints] runs
AdjustedPointsChanged(points) ==
    /\ adjustedPoints' = points
    /\ modelData' = IF view3dShown THEN ModelEffect(points, modelData) ELSE modelData
    /\ UNCHANGED <<pointsExtractionId, targetShape, mutation, modelSource, modelCache,
                   view3dShown>>
    /\ UNCHANGED <<extractVars, debounceVars, storeVars>>

\* the shape tags of the API (TargetShape)
TargetShapes ==
    {"auto", "sphere", "torus", "ellipsoid", "cone", "cube", "cuboid", "hexagonal_prism",
     "pyramid", "helix", "twisted_torus", "wireframe_surface"}

\* targetShape is a string: tags of the API and one that is none of them
ShapeChoices == {"auto", "sphere", "torus", "dodecahedron"}

GenerateRequest ==
    [points_extraction_id |-> pointsExtractionId, target_shape |-> targetShape]

(***************************************************************************)
(* The backend's POST /models/generate, which is not part of the client:   *)
(* it rejects a request whose target_shape is no shape tag of the API.     *)
(***************************************************************************)
BackendAccepts(request) == request.target_shape \in TargetShapes

BackendModel(request) ==
    [id |-> "model-1", points_extraction_id |-> request.points_extraction_id,
     target_shape |-> request.target_shape]

\* mutationFn: apiOk is whether the backend is reachable
MutationFn(apiOk) ==
    IF pointsExtractionId = Null THEN [rejected |-> "No points extraction ID provided"]
    ELSE IF apiOk /\ BackendAccepts(GenerateRequest)
         THEN BackendModel(GenerateRequest)
         ELSE generateMockModel(targetShape)

\* useMutation settles a run of mutationFn; onSuccess stores the data in the cache
MutateWith(result, apiOk) ==
    /\ IF "rejected" \in DOMAIN result
       THEN /\ mutation' = [status |-> "error", error |-> result.rejected]
            /\ modelCache' = modelCache
       ELSE /\ mutation' = [status |-> "success", data |-> result]
            /\ modelCache' = result
    /\ modelSource' = [api |-> IF pointsExtractionId = Null THEN "none"
                               ELSE IF apiOk /\ BackendAccepts(GenerateRequest)
                                    THEN "resolved" ELSE "rejected",
                       settled |-> IF "rejected" \in DOMAIN result THEN "error" ELSE "success"]
    /\ UNCHANGED <<pointsExtractionId, targetShape, adjustedPoints, view3dShown, modelData>>
    /\ UNCHANGED <<extractVars, debounceVars, storeVars>>

\* mutation.mutate()
Mutate == \E apiOk \in BOOLEAN : MutateWith(MutationFn(apiOk), apiOk)

\* the extraction hook left alone: no image, no run
ExtractIdle ==
    /\ imageId = Null
    /\ imageUrl = Null
    /\ image = 0
    /\ useGeometricDetection = TRUE
    /\ debouncedParams = [density |-> 10, threshold |-> 0, minSpacing |-> 1,
                          weighting |-> ConfDen, weightEdges |-> ConfDen,
                          weightIntersections |-> (ConfDen * 3) \div 2,
                          weightSymmetry |-> (ConfDen * 6) \div 5, maxPoints |-> 10]
    /\ data = NoData
    /\ error = NoError
    /\ detected = [ran |-> FALSE, candidates |-> <<>>, features |-> <<>>]
    /\ source = NoSource
    /\ prev = [source |-> NoSource, data |-> NoData]
    /\ runs = 0

MeshInit ==
    /\ pointsExtractionId \in {Null, "extraction-1"}
    /\ targetShape \in ShapeChoices
    /\ mutation = [status |-> "idle"]
    /\ modelSource = NoSource
    /\ modelCache = NoData
    /\ adjustedPoints = <<>>
    /\ view3dShown = FALSE
    /\ modelData = NoData

InitMesh == ExtractIdle /\ MeshInit /\ DebounceIdle /\ StoreInit

NextMesh ==
    \/ ShowView3D
    \/ LeaveView3D
    \/ \E points \in PointLists : AdjustedPointsChanged(points)
    \/ Mutate

SpecMesh == InitMesh /\ [][NextMesh]_vars

(***************************************************************************)
(* useAdjustPoints.ts: the debounce effect and the query key               *)
(*                                                                         *)
(* Time is a clock in ms that advances in steps of TickMs.  A timeout      *)
(* callback runs when it is due: the clock does not pass a pending timer.  *)
(***************************************************************************)
debounceDelay == 300
TickMs == 10 * 10
MaxClock == 8
MaxChanges == 3

\* the arguments the component renders the hook with
DebounceChoices ==
    {p \in ParamChoices : p.threshold = 0 /\ p.maxPoints = 10 /\ p.minSpacing # 0}

\* queryKey for debounced parameters p
QueryKey(p) ==
    <<"extractPoints", imageId, p.density, p.threshold, p.minSpacing,
      p.weightEdges, p.weightIntersections, p.weightSymmetry, p.maxPoints>>

\* the effect's body with the cleanup left out: the earlier timer stays pending
ArmTimer_noCleanup(p) == timers \cup {[values |-> p, due |-> now + debounceDelay]}

\* the effect on [density, ..., maxPoints]: its cleanup clears the timer of
\* the previous run, its body sets a timer of 300 ms holding the values p
ArmTimer(p) == {[values |-> p, due |-> now + debounceDelay]}

\* the component renders the hook with other arguments
ChangeParams(p) ==
    /\ p # hookArgs
    /\ Len(changes) < MaxChanges
    /\ hookArgs' = p
    /\ timers' = ArmTimer(p)
    /\ changes' = Append(changes, [at |-> now, values |-> p])
    /\ UNCHANGED <<now, requested>>
    /\ UNCHANGED <<extractVars, meshVars, storeVars>>

\* a timeout callback runs: setDebouncedParams(values); useQuery fetches when
\* the query key is another one than before
TimerFires(t) ==
    /\ now >= t.due
    /\ debouncedParams' = t.values
    /\ timers' = timers \ {t}
    /\ requested' = IF QueryKey(t.values) # QueryKey(debouncedParams)
                    THEN Append(requested, [key |-> QueryKey(t.values), at |-> now])
                    ELSE requested
    /\ UNCHANGED <<hookArgs, now, changes>>
    /\ UNCHANGED <<imageId, imageUrl, image, useGeometricDetection,
                   data, error, detected, source, prev, runs>>
    /\ UNCHANGED <<meshVars, storeVars>>

\* time passes
Tick ==
    /\ now < MaxClock * TickMs
    /\ \A t \in timers : now < t.due
    /\ now' = now + TickMs
    /\ UNCHANGED <<hookArgs, timers, changes, requested>>
    /\ UNCHANGED <<extractVars, meshVars, storeVars>>

\* the hook's first render: debouncedParams starts as the arguments, the query
\* is enabled and fetches its key, the effect sets its first timer
DebounceInit ==
    /\ imageId = "img-1"
    /\ imageUrl = Null
    /\ image = 0
    /\ useGeometricDetection = TRUE
    /\ debouncedParams \in DebounceChoices
    /\ data = NoData
    /\ error = NoError
    /\ detected = [ran |-> FALSE, candidates |-> <<>>, features |-> <<>>]
    /\ source = NoSource
    /\ prev = [source |-> NoSource, data |-> NoData]
    /\ runs = 0
    /\ hookArgs = debouncedParams
    /\ timers = {[values |-> debouncedParams, due |-> debounceDelay]}
    /\ now = 0
    /\ changes = <<>>
    /\ requested = <<[key |-> QueryKey(debouncedParams), at |-> 0]>>

InitDebounce == DebounceInit /\ MeshIdle /\ StoreInit

NextDebounce ==
    \/ \E p \in DebounceChoices : ChangeParams(p)
    \/ \E t \in timers : TimerFires(t)
    \/ Tick

SpecDebounce == InitDebounce /\ [][NextDebounce]_vars

\* ---- UploadSection ----
CropComplete ==
    /\ UserOn("upload")
    /\ StepRoom(store)
    /\ Commit(setCurrentStep(setUploadedImage(store, CroppedImage, CroppedFile), "analyze"))
    /\ UNCHANGED <<objects, otherVars>>

\* ---- AnalysisSection ----
NewRun(s) ==
    [pc |-> IF s.imageId = Null THEN "upload" ELSE "analyze",
     currentImageId |-> s.imageId,
     rotational_order |-> 0,
     attached |-> TRUE]

\* the auto-start effect and runAnalysis up to its first await
StartAnalysis ==
    /\ AnalysisDue
    /\ ~AlertOpen
    /\ IF store.uploadedImageFile = Null
       THEN Render(store, analyzing, NoFileError, analysisRuns, synced,
                   draggedPointIndex, hook, cleared, NoLoad)
       ELSE /\ Len(analysisRuns) < MaxAnalysisRuns
            /\ Render(store, TRUE, Null, Append(analysisRuns, NewRun(store)), synced,
                      draggedPointIndex, hook, cleared, NoLoad)
    /\ UNCHANGED <<objects, otherVars>>

\* uploadImage settles: the id of the backend, or a local id when it failed
UploadSettlesWith(k, id) ==
    /\ Render(setImageId(store, id), analyzing, analysisError,
              [analysisRuns EXCEPT ![k].pc = "analyze", ![k].currentImageId = id],
              synced, draggedPointIndex, hook, cleared, NoLoad)
    /\ UNCHANGED <<objects, otherVars>>

UploadedId_noFallback(ok) == IF ok THEN BackendImageId ELSE Null

\* uploadResult.id, or `local-${Date.now()}` from the catch
UploadedId(ok) == IF ok THEN BackendImageId ELSE LocalImageId

UploadSettles(k, ok) ==
    /\ analysisRuns[k].pc = "upload"
    /\ ~AlertOpen
    /\ UploadSettlesWith(k, UploadedId(ok))

RemoveAt(seq, k) == SubSeq(seq, 1, k - 1) \o SubSeq(seq, k + 1, Len(seq))

\* the end of runAnalysis: setPatternAnalysis, setAnalyzing(false) and, from
\* the outer catch, setError
FinishAnalysis(k, pattern, mockPoints, failed) ==
    /\ Render(setPatternAnalysis(store, [detected_points |-> mockPoints] @@ pattern),
              analyzing /\ ~analysisRuns[k].attached,
              IF failed /\ analysisRuns[k].attached THEN AnalysisFailedError
                                                     ELSE analysisError,
              RemoveAt(analysisRuns, k), synced, draggedPointIndex, hook, cleared, NoLoad)
    /\ UNCHANGED <<objects, otherVars>>

ClassifiedPattern(order) ==
    [pattern_type |-> "mandala",
     confidence |-> (ConfDen \div 10) * 9,
     symmetry_axes |-> IF order # 0 THEN order ELSE 4]
FallbackPattern ==
    [pattern_type |-> "Circular with radial symmetry",
     confidence |-> (ConfDen \div 100) * 94,
     symmetry_axes |-> 8]
UnknownPattern ==
    [pattern_type |-> "Unknown pattern",
     confidence |-> ConfDen \div 2,
     symmetry_axes |-> 4]

\* analyzeImage settles: resolved with a rotational order (0: none given),
\* or rejected
RotationalOrders == {0}

AnalyzeSettles(k, ok, order, mockPoints) ==
    /\ analysisRuns[k].pc = "analyze"
    /\ ~AlertOpen
    /\ IF ok
       THEN /\ Render(store, analyzing, analysisError,
                      [analysisRuns EXCEPT ![k].pc = "classify",
                                           ![k].rotational_order = order],
                      synced, draggedPointIndex, hook, cleared, NoLoad)
            /\ UNCHANGED <<objects, otherVars>>
       ELSE FinishAnalysis(k, FallbackPattern, mockPoints, FALSE)

\* getPatternClassification settles: resolved with a classification,
\* resolved with a body that has no primary_type, or rejected
ClassifyOutcomes == {"resolved", "malformed", "rejected"}

ClassifySettles(k, outcome, mockPoints) ==
    /\ analysisRuns[k].pc = "classify"
    /\ ~AlertOpen
    /\ CASE outcome = "resolved" ->
              FinishAnalysis(k, ClassifiedPattern(analysisRuns[k].rotational_order),
                             mockPoints, FALSE)
         [] outcome = "rejected" -> FinishAnalysis(k, FallbackPattern, mockPoints, FALSE)
         [] outcome = "malformed" -> FinishAnalysis(k, UnknownPattern, mockPoints, TRUE)

ContinueToAdjust ==
    /\ UserOn("analyze")
    /\ store.patternAnalysis # NoAnalysis
    /\ StepRoom(store)
    /\ Commit(setCurrentStep(store, "adjust"))
    /\ UNCHANGED <<objects, otherVars>>

\* ---- AdjustSection ----
PointsArrive(list) ==
    /\ store.currentStep = "adjust"
    /\ hook.fetching
    /\ ~AlertOpen
    /\ HasRoom(Len(list))
    /\ objects' = objects \o list
    /\ hook' = [points |-> NewRefs(objects, Len(list)), fetching |-> FALSE]
    /\ UNCHANGED <<store, analyzing, analysisError, analysisRuns, synced,
                   draggedPointIndex, cleared, lastLoad, otherVars>>

\* the effect on [points, editMode]
SyncPoints ==
    /\ SyncDue
    /\ ~AlertOpen
    /\ IF Len(hook.points) > 0 /\ store.editMode = "automatic"
       THEN /\ PointsRoom(store)
            /\ Render(setAdjustedPoints(store, hook.points), analyzing, analysisError,
                      analysisRuns, [points |-> hook.points, editMode |-> store.editMode],
                      draggedPointIndex, hook, {}, NoLoad)
       ELSE Render(store, analyzing, analysisError, analysisRuns,
                   [points |-> hook.points, editMode |-> store.editMode],
                   draggedPointIndex, hook, cleared, NoLoad)
    /\ UNCHANGED <<objects, otherVars>>

SetEditMode(mode) ==
    /\ UserOn("adjust")
    /\ mode # store.editMode
    /\ Commit(setEditMode(store, mode))
    /\ UNCHANGED <<objects, otherVars>>

Tools == {"add", "delete", "move"}

\* a tool button: a second click on the selected tool deselects it
SelectTool(tool) ==
    /\ UserOn("adjust")
    /\ store.editMode = "manual"
    /\ Commit(setSelectedTool(store, IF store.selectedTool = tool THEN Null ELSE tool))
    /\ UNCHANGED <<objects, otherVars>>

handleCanvasClick(pos) ==
    /\ UserOn("adjust")
    /\ store.editMode = "manual" /\ store.selectedTool = "add"
    /\ HasRoom(1) /\ PointsRoom(store)
    /\ objects' = Append(objects, [x |-> pos.x, y |-> pos.y, feature_type |-> "edge"])
    /\ Commit(setAdjustedPoints(store, Append(store.adjustedPoints, Len(objects) + 1)))
    /\ UNCHANGED otherVars

handleDeletePoint(index) ==
    /\ UserOn("adjust")
    /\ store.editMode = "manual" /\ store.selectedTool = "delete"
    /\ PointsRoom(store)
    /\ Commit(setAdjustedPoints(store, RemoveAt(store.adjustedPoints, index)))
    /\ UNCHANGED <<objects, otherVars>>

handlePointMouseDown(index) ==
    /\ UserOn("adjust")
    /\ store.editMode = "manual" /\ store.selectedTool = "move"
    /\ draggedPointIndex' = index
    /\ UNCHANGED <<store, objects, analyzing, analysisError, analysisRuns, synced, hook,
                   cleared, lastLoad, otherVars>>

\* the heap and the array handleMouseMove hands to setAdjustedPoints
MovedPoints_inPlace(objs, points, index, pos) ==
    [objects |-> [objs EXCEPT ![points[index]] = [x |-> pos.x, y |-> pos.y] @@ @],
     points |-> points]

MovedPoints(objs, points, index, pos) ==
    [objects |-> Append(objs, [x |-> pos.x, y |-> pos.y] @@ objs[points[index]]),
     points |-> [points EXCEPT ![index] = Len(objs) + 1]]

MoveTo(moved) ==
    /\ objects' = moved.objects
    /\ Commit(setAdjustedPoints(store, moved.points))

handleMouseMove(pos) ==
    /\ store.currentStep = "adjust"
    /\ draggedPointIndex # NotDragging
    /\ draggedPointIndex <= Len(store.adjustedPoints)
    /\ HasRoom(1) /\ PointsRoom(store)
    /\ MoveTo(MovedPoints(objects, store.adjustedPoints, draggedPointIndex, pos))
    /\ UNCHANGED otherVars

handleMouseUp ==
    /\ store.currentStep = "adjust"
    /\ draggedPointIndex # NotDragging
    /\ draggedPointIndex' = NotDragging
    /\ UNCHANGED <<store, objects, analyzing, analysisError, analysisRuns, synced, hook,
                   cleared, lastLoad, otherVars>>

Undo ==
    /\ UserOn("adjust")
    /\ store.editMode = "manual" /\ store.canUndo
    /\ CommitHistory(undo(store))
    /\ UNCHANGED <<objects, otherVars>>

Redo ==
    /\ UserOn("adjust")
    /\ store.editMode = "manual" /\ store.canRedo
    /\ CommitHistory(redo(store))
    /\ UNCHANGED <<objects, otherVars>>

\* either Clear button, confirmed
ClearAll ==
    /\ UserOn("adjust")
    /\ Len(store.adjustedPoints) # 0
    /\ Render(clearPointsHistory(store), analyzing, analysisError, analysisRuns, synced,
              draggedPointIndex, hook,
              {store.adjustedPoints[i] : i \in 1..Len(store.adjustedPoints)}, NoLoad)
    /\ UNCHANGED <<objects, otherVars>>

\* the sliders and number inputs of the automatic tab
SliderChoices == [pointDensity |-> {50, 80}]

ChangeSlider(field, value) ==
    /\ UserOn("adjust")
    /\ store.editMode = "automatic"
    /\ value # store[field]
    /\ Commit(set(store, field :> value))
    /\ UNCHANGED <<objects, otherVars>>

displayPoints(s, hk) ==
    IF s.editMode = "manual" THEN s.adjustedPoints
    ELSE IF Len(hk.points) > 0 THEN hk.points
    ELSE IF s.patternAnalysis # NoAnalysis THEN s.patternAnalysis.detected_points
    ELSE s.adjustedPoints

isLoading(hk) == hk.fetching /\ hk.points = <<>>

GenerateModel ==
    /\ UserOn("adjust")
    /\ ~isLoading(hook) /\ Len(displayPoints(store, hook)) # 0
    /\ StepRoom(store)
    /\ Commit(setCurrentStep(store, "view3d"))
    /\ UNCHANGED <<objects, otherVars>>

\* the Animation Frames slider: min 10, step 5
FrameCountChoices == {10, 15}

SetFrameCount(count) ==
    /\ UserOn("adjust")
    /\ count # store.frameCount
    /\ Commit(setFrameCount(store, count))
    /\ UNCHANGED <<objects, otherVars>>

\* ---- View3DSection ----
ProceedToExport ==
    /\ UserOn("view3d")
    /\ StepRoom(store)
    /\ Commit(setCurrentStep(store, "export"))
    /\ UNCHANGED <<objects, otherVars>>

\* the Play / Pause button
ToggleAnimating ==
    /\ UserOn("view3d")
    /\ Commit(setIsAnimating(store, ~store.isAnimating))
    /\ UNCHANGED <<objects, otherVars>>

\* the Animation Frame slider, min 0 and max frameCount - 1
Scrub(frame) ==
    /\ UserOn("view3d")
    /\ frame \in 0..(store.frameCount - 1)
    /\ frame # store.currentFrame
    /\ Commit(setIsAnimating(setCurrentFrame(store, frame), FALSE))
    /\ UNCHANGED <<objects, otherVars>>

\* currentFrame >= frameCount - 1 ? 0 : currentFrame + 1
nextFrame(s) == IF s.currentFrame >= s.frameCount - 1 THEN 0 ELSE s.currentFrame + 1

\* the setInterval callback of the animation loop, every 50 ms while
\* View3DSection is mounted and isAnimating
AnimationTick ==
    /\ store.currentStep = "view3d"
    /\ store.isAnimating
    /\ ~AlertOpen
    /\ Commit(setCurrentFrame(store, nextFrame(store)))
    /\ UNCHANGED <<objects, otherVars>>

\* Scene: animationProgress = currentFrame / Math.max(1, frameCount - 1), as
\* <<numerator, denominator>>
animationProgress(currentFrame, frameCount) == <<currentFrame, Max(1, frameCount - 1)>>

\* ---- Layout (the header) ----
GoBack ==
    /\ UserOnHeader
    /\ store.canGoBack
    /\ CommitHistory(goBack(store))
    /\ UNCHANGED <<objects, otherVars>>

GoForward ==
    /\ UserOnHeader
    /\ store.canGoForward
    /\ CommitHistory(goForward(store))
    /\ UNCHANGED <<objects, otherVars>>

handleNewProject ==
    /\ UserOnHeader
    /\ Commit(reset(store))
    /\ UNCHANGED <<objects, otherVars>>

ToggleDarkMode ==
    /\ UserOnHeader
    /\ Commit(toggleDarkMode(store))
    /\ UNCHANGED <<objects, otherVars>>

\* the files the user may pick in the Load dialog: text is what the file
\* holds (parses: JSON.parse accepts it), detected and adjusted are the point
\* objects written in it
SavedFields ==
    [uploadedImage |-> CroppedImage,
     pointDensity |-> 80, detectionThreshold |-> 100, minimumSpacing |-> 5,
     weightingFactor |-> ConfDen, frameCount |-> 10, lineWidth |-> 2,
     modelColor |-> "#00CCCC", modelColor2 |-> "", useGradient |-> FALSE]

ProjectFiles ==
    [garbage |-> [parses |-> FALSE],
     partial |-> [parses |-> TRUE, fields |-> SavedFields,
                  pattern |-> FallbackPattern,
                  detected |-> <<EdgePoint>>, adjusted |-> <<CenterPoint>>],
     project |-> [parses |-> TRUE, fields |-> [currentStep |-> "adjust"] @@ SavedFields,
                  pattern |-> FallbackPattern,
                  detected |-> <<EdgePoint>>, adjusted |-> <<CenterPoint>>]]

FileNames == DOMAIN ProjectFiles

\* JSON.parse: the object of the file, its adjustedPoints new objects on the heap
Parsed(objs, file) ==
    [objects |-> objs \o file.adjusted,
     data |-> [patternAnalysis |-> [detected_points |-> file.detected] @@ file.pattern,
               adjustedPoints |-> NewRefs(objs, Len(file.adjusted))]
              @@ file.fields]

LoadParsed(name, parsed) ==
    /\ objects' = parsed.objects
    /\ Render(loadProjectData(store, parsed.data), analyzing, analysisError, analysisRuns,
              synced, draggedPointIndex, hook, {}, [file |-> name, outcome |-> "loaded"])

\* handleFileChange and the reader.onload it registers: JSON.parse and
\* loadProjectData, or the alert of the catch
handleFileChange(name) ==
    /\ UserOnHeader
    /\ IF ProjectFiles[name].parses
       THEN /\ HasRoom(Len(ProjectFiles[name].adjusted))
            /\ LoadParsed(name, Parsed(objects, ProjectFiles[name]))
       ELSE /\ lastLoad' = [file |-> name, outcome |-> "failed"]
            /\ UNCHANGED <<store, objects, analyzing, analysisError, analysisRuns,
                           synced, draggedPointIndex, hook, cleared>>
    /\ UNCHANGED otherVars

DismissAlert ==
    /\ AlertOpen
    /\ lastLoad' = NoLoad
    /\ UNCHANGED <<store, objects, analyzing, analysisError, analysisRuns, synced,
                   draggedPointIndex, hook, cleared, otherVars>>

InitStore == ExtractIdle /\ MeshIdle /\ DebounceIdle /\ StoreInit

\* the calls of the backend by runAnalysis settle, in any of their ways
AnalysisSettles ==
    \/ \E k \in DOMAIN analysisRuns : \E ok \in BOOLEAN : UploadSettles(k, ok)
    \/ \E k \in DOMAIN analysisRuns : \E ok \in BOOLEAN : \E order \in RotationalOrders :
           \E mockPoints \in MockPointLists : AnalyzeSettles(k, ok, order, mockPoints)
    \/ \E k \in DOMAIN analysisRuns : \E outcome \in ClassifyOutcomes :
           \E mockPoints \in MockPointLists : ClassifySettles(k, outcome, mockPoints)

\* the same with a backend that answers every call
AnalysisSucceeds ==
    \/ \E k \in DOMAIN analysisRuns : UploadSettles(k, TRUE)
    \/ \E k \in DOMAIN analysisRuns : \E order \in RotationalOrders :
           \E mockPoints \in MockPointLists : AnalyzeSettles(k, TRUE, order, mockPoints)
    \/ \E k \in DOMAIN analysisRuns : \E mockPoints \in MockPointLists :
           ClassifySettles(k, "resolved", mockPoints)

\* the five steps in their order, each left by its button
Workflow ==
    \/ CropComplete
    \/ StartAnalysis
    \/ AnalysisSucceeds
    \/ ContinueToAdjust
    \/ \E list \in FetchedLists : PointsArrive(list)
    \/ SyncPoints
    \/ GenerateModel
    \/ ProceedToExport

\* ---- runAnalysis against a failing backend, with the header in use ----
NextAnalysis ==
    \/ CropComplete
    \/ StartAnalysis
    \/ AnalysisSettles
    \/ ContinueToAdjust
    \/ SyncPoints
    \/ GoBack
    \/ GoForward
    \/ handleNewProject
    \/ \E name \in FileNames : handleFileChange(name)
    \/ DismissAlert

SpecAnalysis == InitStore /\ [][NextAnalysis]_vars

\* ---- the workflow with step navigation and the controls of the adjust step ----
NextStore ==
    \/ Workflow
    \/ GoBack
    \/ GoForward
    \/ \E mode \in {"automatic", "manual"} : SetEditMode(mode)
    \/ \E field \in DOMAIN SliderChoices : \E value \in SliderChoices[field] :
           ChangeSlider(field, value)
    \/ Undo
    \/ Redo
    \/ ClearAll

SpecStore == InitStore /\ [][NextStore]_vars

\* ---- the workflow with the header: new project, load project, theme ----
NextProject ==
    \/ Workflow
    \/ GoBack
    \/ GoForward
    \/ handleNewProject
    \/ ToggleDarkMode
    \/ \E name \in FileNames : handleFileChange(name)
    \/ DismissAlert

SpecProject == InitStore /\ [][NextProject]_vars

\* ---- manual editing in AdjustSection ----
\* the adjust step as the workflow reaches it: image cropped, analysis run
\* against an answering backend, one point fetched and synced
AdjustEntered ==
    setCurrentStep(
        setPatternAnalysis(
            setImageId(
                setCurrentStep(setUploadedImage(createStore, CroppedImage, CroppedFile),
                               "analyze"),
                BackendImageId),
            [detected_points |-> CHOOSE l \in MockPointLists : TRUE] @@ ClassifiedPattern(0)),
        "adjust")

EditInit ==
    /\ store = setAdjustedPoints(AdjustEntered, <<1>>)
    /\ objects = <<EdgePoint>>
    /\ analyzing = FALSE
    /\ analysisError = Null
    /\ analysisRuns = <<>>
    /\ hook = [points |-> <<1>>, fetching |-> FALSE]
    /\ synced = [points |-> <<1>>, editMode |-> "automatic"]
    /\ draggedPointIndex = NotDragging
    /\ lastLoad = NoLoad
    /\ cleared = {}

InitEdit == ExtractIdle /\ MeshIdle /\ DebounceIdle /\ EditInit

NextEdit ==
    \/ \E mode \in {"automatic", "manual"} : SetEditMode(mode)
    \/ \E tool \in Tools : SelectTool(tool)
    \/ \E pos \in ClickPositions : handleCanvasClick(pos)
    \/ \E index \in DOMAIN store.adjustedPoints : handleDeletePoint(index)
    \/ \E index \in DOMAIN store.adjustedPoints : handlePointMouseDown(index)
    \/ \E pos \in DragPositions : handleMouseMove(pos)
    \/ handleMouseUp
    \/ Undo
    \/ Redo
    \/ ClearAll
    \/ \E list \in FetchedLists : PointsArrive(list)
    \/ SyncPoints

SpecEdit == InitEdit /\ [][NextEdit]_vars

\* ---- the animation of View3DSection, from the adjust step on ----
ScrubChoices == 0..(initialState.frameCount - 1)

NextView ==
    \/ \E list \in FetchedLists : PointsArrive(list)
    \/ SyncPoints
    \/ \E count \in FrameCountChoices : SetFrameCount(count)
    \/ GenerateModel
    \/ ToggleAnimating
    \/ \E frame \in ScrubChoices : Scrub(frame)
    \/ AnimationTick
    \/ GoBack
    \/ GoForward
    \/ handleNewProject
    \/ \E name \in FileNames : handleFileChange(name)
    \/ DismissAlert

SpecView == InitEdit /\ [][NextView]_vars

(***************************************************************************)
(* Properties                                                              *)
(***************************************************************************)
\* every two distinct entries of points are at squared distance >= minDistSq
Spaced(points, minDistSq) ==
    \A a, b \in 1..Len(points) : a # b => DistSq(points[a], points[b]) >= minDistSq

\* C1: every point set returned by the client-side extractors keeps the
\* configured minimum distance between every two distinct points:
\* detectFeaturesFromImageData in pixels (minSpacing), generateMockPoints in
\* normalized coordinates (minSpacing / 100).
C1_SpacingInvariant ==
    /\ detected.ran =>
          Spaced(detected.features, debouncedParams.minSpacing * debouncedParams.minSpacing)
    /\ (data # NoData /\ data.id = "mock") =>
          Spaced(data.points, MockMinDist(debouncedParams.minSpacing)
                                * MockMinDist(debouncedParams.minSpacing))

\* C1 witness: local detection returned several features after the spacing
\* filter dropped candidates
C1_Witness ==
    /\ detected.ran
    /\ Len(detected.features) >= 2
    /\ Len(detected.features) < Len(detected.candidates)
    /\ data # NoData /\ data.id = "local"

\* C2: the point set delivered by useAdjustPoints never holds more than
\* maxPoints points, whichever path produced it.
C2_CountBound ==
    data # NoData => Len(data.points) <= debouncedParams.maxPoints

\* greedy non-maximum suppression: candidates by confidence descending, each
\* accepted iff at distance >= minSpacing from every accepted one, up to cap
GreedyNMS(candidates, minSpacing, cap) ==
    Slice0(FilterFrom(SortByConfidence(candidates), <<>>, minSpacing), cap)

\* C3: the result of detectFeaturesFromImageData is the greedy non-maximum
\* suppression of its candidates in order of descending confidence, so that
\* no candidate is suppressed by a neighbour of lower confidence.
C3_GreedyByConfidence ==
    detected.ran =>
        /\ detected.features = GreedyNMS(detected.candidates, debouncedParams.minSpacing,
                                         DetectCap(debouncedParams.density))
        /\ Len(detected.features) < DetectCap(debouncedParams.density) =>
              \A k \in 1..Len(detected.candidates) :
                  \/ \E i \in 1..Len(detected.features) :
                        detected.features[i] = detected.candidates[k]
                  \/ \E i \in 1..Len(detected.features) :
                        /\ detected.features[i].confidence >= detected.candidates[k].confidence
                        /\ DistSq(detected.candidates[k], detected.features[i])
                             < debouncedParams.minSpacing * debouncedParams.minSpacing

\* C4: with the image and the parameters fixed, two runs of queryFn that met
\* the same backend outcome deliver identical point sets.
C4_Deterministic ==
    (/\ runs >= 2
     /\ source.settled = "success" /\ prev.source.settled = "success"
     /\ source.api = prev.source.api)
    => data.points = prev.data.points

\* C5: for a uniformly blank image, with the backend failing and local
\* detection finding no candidate, the delivered point set is empty and there
\* is no error.
C5_BlankImageEmpty ==
    (/\ IsBlank(image)
     /\ source.api = "rejected"
     /\ detected.ran /\ detected.candidates = <<>>)
    => (error = NoError /\ data # NoData /\ data.points = <<>>)

\* every face index is in [0, vertices.length) and there is one normal per vertex
MeshValid(m) ==
    /\ \A k \in 1..Len(m.faces) : \A c \in 1..3 :
          m.faces[k][c] >= 0 /\ m.faces[k][c] < Len(m.vertices)
    /\ Len(m.normals) = Len(m.vertices)

\* C6: every mesh of generateSphereModel, generateTorusModel and
\* generateMockTorusFromPoints has all face indices in [0, vertices.length),
\* one normal per vertex and, where reported, vertex_count = vertices.length
\* and face_count = faces.length.
C6_MeshValid ==
    /\ (mutation.status = "success" /\ mutation.data.id = "mock") =>
          /\ MeshValid(mutation.data)
          /\ mutation.data.vertex_count = Len(mutation.data.vertices)
          /\ mutation.data.face_count = Len(mutation.data.faces)
    /\ modelData # NoData => MeshValid(modelData)

\* C6 witness: a mock model was generated and the 3D view holds a torus made
\* from a full point list
C6_Witness ==
    /\ mutation.status = "success" /\ mutation.data.id = "mock"
    /\ Len(mutation.data.faces) > 0
    /\ modelData # NoData /\ Len(modelData.faces) > 0
    /\ Len(adjustedPoints) = MaxViewPoints

\* V - E + F, E the number of edges CymaticGeometry extracts
EulerCharacteristic(m) == Len(m.vertices) - Cardinality(edges(m.faces)) + Len(m.faces)

\* C7: V - E + F = 2 for the generated sphere and = 0 for the generated
\* torus meshes (generateTorusModel, generateMockTorusFromPoints).
C7_EulerCharacteristic ==
    /\ (mutation.status = "success" /\ mutation.data.id = "mock") =>
          EulerCharacteristic(mutation.data) = (IF mutation.data.shape = "torus" THEN 0 ELSE 2)
    /\ modelData # NoData => EulerCharacteristic(modelData) = 0

\* C8: when the backend fails a point-extraction or model-generation request,
\* the caller gets an error (a non-null error of useAdjustPoints, a rejected
\* mutation of useGenerateModel), not substitute data.
C8_FailureSurfaced ==
    /\ source.api = "rejected" => (error # NoError /\ source.settled = "error")
    /\ modelSource.api = "rejected" => mutation.status = "error"

\* C9: model generation for a shape tag that is no tag of the API ends in a
\* reported error, never in a default shape.
C9_UnknownShapeReported ==
    (targetShape \notin TargetShapes /\ modelSource.settled # "none")
    => mutation.status = "error"

\* C10: while the 3D view is shown with an empty adjustedPoints, modelData is
\* a mesh and every torus vertex has the tube radius 0.4, with no displacement.
C10_EmptyPointsBaseTorus ==
    (view3dShown /\ adjustedPoints = <<>>)
    => /\ modelData # NoData
       /\ \A k \in 1..Len(modelData.vertices) : modelData.vertices[k][3] = mockMinorRadius

\* C11: no extraction parameter is clamped on its way to the backend: in every
\* request sent, min_distance, the three weights and max_points equal the
\* configured values, unless the run ended in an error.
C11_NoSilentClamp ==
    source.api # "none" =>
        \/ error # NoError
        \/ /\ extractPoints(ExtractRequest(imageId, debouncedParams)).min_distance
                = debouncedParams.minSpacing
           /\ extractPoints(ExtractRequest(imageId, debouncedParams)).weight_edges
                = debouncedParams.weightEdges
           /\ extractPoints(ExtractRequest(imageId, debouncedParams)).weight_intersections
                = debouncedParams.weightIntersections
           /\ extractPoints(ExtractRequest(imageId, debouncedParams)).weight_symmetry
                = debouncedParams.weightSymmetry
           /\ extractPoints(ExtractRequest(imageId, debouncedParams)).max_points
                = debouncedParams.maxPoints

\* the list points with its k-th point replaced by q
WithPoint(points, k, q) == [points EXCEPT ![k] = q]

\* q is the point p with another weight and nothing else changed
ReweightOf(p, q) ==
    /\ q.x = p.x /\ q.y = p.y /\ q.feature_type = p.feature_type
    /\ q.weight # p.weight

\* C12: in generateMockTorusFromPoints a point's contribution to the
\* displacement is weighted by the point's own weight: giving one point of
\* adjustedPoints another weight, where that point displaces some vertex,
\* gives another mesh than the one shown.
C12_WeightChangesDisplacement ==
    (view3dShown /\ Len(adjustedPoints) > 0) =>
        \A k \in 1..Len(adjustedPoints) : \A q \in PointChoices :
            (/\ ReweightOf(adjustedPoints[k], q)
             /\ \E i \in 0..mockMajorSegments :
                    Displacement(<<adjustedPoints[k]>>, (i * TwoPi) \div mockMajorSegments) > 0)
            => MockTorusTable[WithPoint(adjustedPoints, k, q)] # modelData

\* x and y in [0, 1] and weight >= 0, on the model's scales
PointInRange(p) ==
    /\ p.x >= 0 /\ p.x <= CoordScale
    /\ p.y >= 0 /\ p.y <= CoordScale
    /\ p.weight >= 0

\* C13: every point returned by detectGeometricFeatures and by
\* generateMockPoints has x and y in [0, 1] and weight >= 0 (threshold >= 0,
\* weighting >= 0).
C13_PointsInRange ==
    (data # NoData /\ data.id \in {"local", "mock"}) =>
        \A k \in 1..Len(data.points) : PointInRange(data.points[k])

\* C13 witness: local detection delivered several points, one of them off
\* the origin and with a positive weight
C13_Witness ==
    /\ data # NoData /\ data.id = "local"
    /\ Len(data.points) >= 2
    /\ \E k \in 1..Len(data.points) :
          data.points[k].x > 0 /\ data.points[k].y > 0 /\ data.points[k].weight > 0

\* C16: for a non-null imageId queryFn never rejects, and its result is the
\* backend's if the API call succeeded; otherwise the local detection's iff
\* detection is enabled, there is an image URL and it returned at least one
\* point; otherwise mock points.  It rejects only when imageId is null.
C16_SourcePrecedence ==
    /\ source.settled # "none" => (source.settled = "error" <=> imageId = Null)
    /\ source.settled = "error" => error = "No image ID provided"
    /\ source.settled = "success" =>
          /\ error = NoError
          /\ data.id =
                IF source.api = "resolved" THEN "backend"
                ELSE IF /\ useGeometricDetection /\ imageUrl # Null
                        /\ Len(detectGeometricFeatures(image, DetectOptions(debouncedParams))) > 0
                     THEN "local" ELSE "mock"
          /\ data.id = "backend" =>
                data.points = BackendPoints(image,
                                  extractPoints(ExtractRequest(imageId, debouncedParams)))
          /\ data.id = "local" =>
                data.points = detectGeometricFeatures(image, DetectOptions(debouncedParams))
          /\ data.id = "mock" =>
                \E seed \in Seeds : data.points = MockTable[MockOptions(debouncedParams)][seed]

\* C16 witness: the API call failed, local detection ran and returned no
\* point, and mock points were delivered
C16_Witness ==
    /\ source.api = "rejected" /\ source.settled = "success"
    /\ useGeometricDetection /\ imageUrl # Null
    /\ detected.ran /\ detected.features = <<>>
    /\ data.id = "mock" /\ Len(data.points) > 0

\* when the arguments last changed (0: not since the first render)
LastChangeAt == IF changes = <<>> THEN 0 ELSE changes[Len(changes)].at

\* C15: the extraction parameters are debounced by 300 ms.  A key fetched
\* after the first render is the key of a change that was 300 ms old and not
\* followed by another change before the fetch; once the arguments have
\* stayed unchanged for 300 ms, debouncedParams equals them and the key
\* fetched last is their key.
C15_Debounced ==
    /\ \A k \in 2..Len(requested) : \E i \in 1..Len(changes) :
          /\ requested[k].key = QueryKey(changes[i].values)
          /\ requested[k].at = changes[i].at + debounceDelay
          /\ i < Len(changes) => changes[i + 1].at >= requested[k].at
    /\ (now > LastChangeAt + debounceDelay
           \/ (now = LastChangeAt + debounceDelay /\ timers = {}))
        => /\ debouncedParams = hookArgs
           /\ requested[Len(requested)].key = QueryKey(hookArgs)

\* C15 witness: a change was followed by another one within 300 ms, and the
\* second one was fetched after it had stayed for 300 ms
C15_Witness ==
    /\ Len(changes) >= 2
    /\ changes[2].at > changes[1].at
    /\ changes[2].at < changes[1].at + debounceDelay
    /\ QueryKey(changes[1].values) # QueryKey(changes[2].values)
    /\ Len(requested) >= 2
    /\ requested[Len(requested)].key = QueryKey(changes[2].values)
    /\ requested[Len(requested)].key # requested[1].key
    /\ debouncedParams = hookArgs

\* C14: a point set is not written to once it has been returned or recorded:
\* over every step, an entry of pointsHistory that stays in the history, and
\* the points the hook returned, hold the same points with the same
\* coordinates before and after the step
C14_HistoryImmutable ==
    [][/\ \A k \in DOMAIN store.pointsHistory :
              (k \in DOMAIN store'.pointsHistory
                 /\ store'.pointsHistory[k] = store.pointsHistory[k])
              => Contents(objects', store'.pointsHistory[k])
                     = Contents(objects, store.pointsHistory[k])
       /\ hook'.points = hook.points
              => Contents(objects', hook'.points) = Contents(objects, hook.points)]_vars

\* a drag has been recorded after an entry that still holds the point where
\* it was before the drag
C14_Witness ==
    \E k \in DOMAIN store.pointsHistory : \E pos \in DragPositions :
        /\ k + 1 \in DOMAIN store.pointsHistory
        /\ Len(store.pointsHistory[k]) = Len(store.pointsHistory[k + 1])
        /\ \E i \in DOMAIN store.pointsHistory[k] :
               /\ objects[store.pointsHistory[k + 1][i]].x = pos.x
               /\ objects[store.pointsHistory[k][i]].x # pos.x

\* C17: when a run of runAnalysis started by the mounted AnalysisSection
\* ends, analyzing is false and the store holds an image id and a pattern
\* analysis, however the upload, analyze and classification calls settled
C17_AnalysisCompletes ==
    [][\A k \in DOMAIN analysisRuns :
           (analysisRuns[k].attached /\ analysisRuns' = RemoveAt(analysisRuns, k))
           => /\ ~analyzing'
              /\ store'.imageId # Null
              /\ store'.patternAnalysis # NoAnalysis]_vars

\* a run has ended on the analysis step after the upload failed and the
\* analysis or the classification was rejected
C17_Witness ==
    /\ store.currentStep = "analyze"
    /\ analysisRuns = <<>>
    /\ ~analyzing
    /\ store.imageId = LocalImageId
    /\ store.patternAnalysis # NoAnalysis
    /\ store.patternAnalysis.pattern_type = FallbackPattern.pattern_type

\* C18: once Clear All has removed the points, undo, redo, goBack and
\* goForward do not bring any of them back into adjustedPoints
C18_ClearedStaysCleared ==
    \A r \in cleared : \A i \in DOMAIN store.adjustedPoints : store.adjustedPoints[i] # r

\* the files that are no project: no JSON, or JSON without currentStep
InvalidFiles ==
    {name \in FileNames :
        \/ ~ProjectFiles[name].parses
        \/ "currentStep" \notin DOMAIN ProjectFiles[name].fields}

\* C19: a file that is no valid project is reported as a load failure and
\* not loaded, and currentStep is always one of the five steps
C19_InvalidFileRejected ==
    /\ store.currentStep \in StepNames
    /\ lastLoad.file \in InvalidFiles => lastLoad.outcome = "failed"

\* C20: New Project puts every field of initialState back to its initial
\* value and keeps isDarkMode
C20_ResetRestoresInitialState ==
    [][handleNewProject
           => /\ \A f \in DOMAIN initialState : store'[f] = initialState[f]
              /\ store'.isDarkMode = store.isDarkMode]_vars

\* New Project has been used in dark mode after steps were taken and points
\* were fetched: the image, the steps and the points are gone
C20_Witness ==
    /\ store.isDarkMode
    /\ store.canGoBack /\ store.canUndo
    /\ store.stepHistory = <<>> /\ store.pointsHistory = <<>>
    /\ store.currentStep = "upload" /\ store.uploadedImage = Null
    /\ objects # <<>>

\* C23: in every state that shows a section, currentFrame stays within
\* 0 .. max(0, frameCount - 1), so that the animation progress lies in [0, 1]
C23_FrameInRange ==
    store.currentStep \in StepNames
        => /\ 0 <= store.currentFrame
           /\ store.currentFrame <= Max(0, store.frameCount - 1)


\* C21: CymaticGeometry never computes more than min(300, floor(n / 2))
\* lines for its n vertices, and at the animation progress Scene passes to
\* it the number of visible lines never exceeds the number of lines
LinesBounded(vertices, lines, progress) ==
    /\ Len(lines) <= Min(300, Len(vertices) \div 2)
    /\ visibleLineCount(lines, progress) <= Len(lines)

C21_CymaticLinesBounded ==
    store.currentStep = "view3d"
        => \A p \in DOMAIN VertexLists : \A renderMode \in RenderModes :
               LinesBounded(VertexLists[p], CymaticLinesOf(p, renderMode),
                            animationProgress(store.currentFrame, store.frameCount))

\* C22: with the step buttons and goBack / goForward, currentStep moves only
\* to a step next to it in upload, analyze, adjust, view3d, export
C22_AdjacentSteps ==
    [][Abs(currentIndex(store'.currentStep) - currentIndex(store.currentStep)) <= 1]_vars

\* export has been reached with four entries in the history, and goBack has
\* led from it back to the adjust step
C22_Witness ==
    /\ store.currentStep = "adjust"
    /\ Len(store.stepHistory) = 4
    /\ store.stepHistory[4].step = "export"
    /\ store.currentHistoryIndex = 1
    /\ store.canGoForward

\* the points AdjustSection draws (displayPoints), by value
DisplayedPoints(s, hk, objs) ==
    IF s.editMode = "automatic" /\ Len(hk.points) = 0 /\ s.patternAnalysis # NoAnalysis
    THEN s.patternAnalysis.detected_points
    ELSE Contents(objs, displayPoints(s, hk))

\* C24: when Generate 3D Model leads to the 3D view, the store's
\* adjustedPoints are the points the adjust step displayed
C24_GeneratesFromDisplayed ==
    [][GenerateModel
           => Contents(objects', store'.adjustedPoints)
                  = DisplayedPoints(store, hook, objects)]_vars

\* the distance between two angles around the circle
CircularDistance(angle, theta) ==
    Min((angle - theta) % TwoPi, TwoPi - ((angle - theta) % TwoPi))

\* C25: every vertex of the mock torus is displaced by the sum, over the
\* points, of 0.1 * (1 - d / 0.5) for the circular distance d < 0.5 rad
\* between the point's polar angle and the vertex's major angle
C25_DisplacementByCircularDistance ==
    (view3dShown /\ Len(adjustedPoints) > 0) =>
        \A k \in 1..Len(modelData.vertices) :
            modelData.vertices[k][3] - mockMinorRadius
                = SumSeq([p \in 1..Len(adjustedPoints) |->
                            DisplacementOf(CircularDistance(
                                PointAngle(adjustedPoints[p]),
                                (modelData.vertices[k][1] * TwoPi) \div mockMajorSegments))])

\* C26: the enable flags agree with the history cursors
C26_FlagsAgreeWithCursors ==
    /\ store.canGoBack = (store.currentHistoryIndex > 0)
    /\ store.canGoForward = (store.currentHistoryIndex < Len(store.stepHistory) - 1)
    /\ store.canUndo = (store.pointsHistoryIndex > 0)
    /\ store.canRedo = (store.pointsHistoryIndex < Len(store.pointsHistory) - 1)

\* C27: on the analyze step reached from the initial upload step, goBack is
\* enabled and leads back to upload
C27_BackToUpload ==
    (store.currentStep = "analyze" /\ store.currentHistoryIndex = 0)
        => /\ store.canGoBack
           /\ goBack(store).currentStep = "upload"

\* the fields goBack followed by goForward is to restore
RoundTripFields ==
    {"currentStep", "currentHistoryIndex", "stepHistory", "adjustedPoints", "pointDensity",
     "detectionThreshold", "minimumSpacing", "editMode", "frameCount", "lineWidth"}

\* C28: when canGoBack holds, goBack followed at once by goForward restores
\* the step, the history and the workflow data, edits made on the current
\* step included
C28_BackForwardRoundTrip ==
    store.canGoBack
        => \A f \in RoundTripFields : goForward(goBack(store))[f] = store[f]

\* C29: adjustedPoints has the contents of the points history entry at the
\* cursor
C29_PointsMatchHistory ==
    store.pointsHistoryIndex >= 0
        => Contents(objects, store.adjustedPoints)
               = Contents(objects, store.pointsHistory[store.pointsHistoryIndex + 1])

====
